---- MODULE Spec2Model ----
(***************************************************************************)
(* AgentOS: the task dispatch loop of the dev server (dev-server.js) and   *)
(* of the VS Code extension's Orchestrator / TaskManager / AgentRegistry.  *)
(*                                                                         *)
(* Spec     the dev server: agents, tasks, runDispatch, executeTask,       *)
(*          approveTask, the client commands, the recharge timer           *)
(* SpecPool the dev server with two tasks competing for the agents          *)
(* SpecCap  the dev server started with six configured agents              *)
(* SpecChain the dev server with tasks that spawn subtasks, to depth 3     *)
(* SpecMem  the dev server's task history (saveTaskToMemory, saveMemory)   *)
(* SpecCast the dev server's throttled broadcaster (scheduleBroadcast)     *)
(* SpecPerf the dev server's performance log (recordPerformance)           *)
(* SpecLong the dev server over a long run, past the eviction of finished  *)
(*          tasks from the live list (cleanupTasks)                        *)
(* SpecExt  the extension's Orchestrator                                   *)
(* SpecQueue the extension's pending queue with tasks of every priority    *)
(* SpecParse the dev server's parsers of a model response                  *)
(* SpecCastFair SpecCast with its timer and clock running                  *)
(* SpecAssign the extension with tasks assigned by hand, every backend     *)
(*          call returning or throwing                                     *)
(* SpecPick the dev server's choice of an agent (pickAgent), agents        *)
(*          starting idle or offline                                       *)
(* SpecScore the dev server's scoreOutput on its own                        *)
(* SpecLog  the activity logs of the dev server and of the EventBus        *)
(***************************************************************************)
EXTENDS Integers, Sequences, FiniteSets, TLC

\* ---------------------------------------------------------------- bounds
MaxTasks == 1
PoolTasks == 2
MaxAgents == 2
MaxTicks == 2
CapTasks == 6
PickTasks == 2
MaxApprovals == 1
MaxRepeat == 2
ChainTasks == 5
ChainRoots == 2
MemTasks == 52
MaxContent == 3
LogEvents == 102
ScoreFiles == 5
ScoreExecs == 2
MemTicks == 1
LongTasks == 34
PerfRecords == 22
PerfFree == 2
CastClients == 2
CastStep == 100
CastTicks == 5
CastEvents == 4
XMaxTasks == 1
QueueTasks == 3
XMaxSpawned == 1

\* ------------------------------------------------------- program constants
CooldownMs == 60000
MAX_VISIBLE == 30
MaxTaskDepth == 3
StartEnergy == 100
MinRecharge == 5
MaxEnergyCost == 5
PerfKeep == 20
RecentWindow == 5
FailBelow == 30
TopN == 3
ExplorationBonus == 15
ExploreBelow == 3
DefaultScore == 50
maxConcurrent == 5
HistoryCap == 50
ActivityCap == 100
maxLogSize == 500
BROADCAST_MIN_INTERVAL == 300
XDefaultRetryAfter == 60
XMinEnergy == 5

Null == "null"
\* null for a timestamp and for a task id
NoTime == 0 - 1
NoTask == 1 - 1

\* ------------------------------------------------------------------ paths
\* A path string is a sequence of characters; a relative path is given by its
\* segments (the pieces between "/"), each a sequence of characters.
PROJECT_ROOT == << <<"p">>, <<"w">> >>

UP == <<".", ".">>
DOT == <<".">>
P_in == << <<"a">> >>
P_sibling == << UP, <<"w", "x">> >>
P_out == << UP, UP, <<"e">> >>

RECURSIVE NormalizeSegs(_, _)
\* path.normalize on an absolute path: "." vanishes, ".." drops the segment
\* before it (and vanishes at the root)
NormalizeSegs(acc, rest) ==
  IF rest = <<>> THEN acc
  ELSE LET s == Head(rest) IN
       IF s = DOT THEN NormalizeSegs(acc, Tail(rest))
       ELSE IF s = UP
            THEN NormalizeSegs(IF acc = <<>> THEN acc ELSE SubSeq(acc, 1, Len(acc) - 1),
                               Tail(rest))
            ELSE NormalizeSegs(Append(acc, s), Tail(rest))

\* path.join(base, rel): the normalised segments of base + "/" + rel
PathJoin(base, rel) == NormalizeSegs(<<>>, base \o rel)

RECURSIVE PathString(_)
\* the string of an absolute path: "/" before each segment
PathString(segs) ==
  IF segs = <<>> THEN <<>>
  ELSE <<"/">> \o Head(segs) \o PathString(Tail(segs))

\* String.prototype.startsWith
StartsWith(s, prefix) ==
  /\ Len(prefix) <= Len(s)
  /\ SubSeq(s, 1, Len(prefix)) = prefix

\* runExecBlocks: fullCwd.startsWith(PROJECT_ROOT)
CwdAllowed(cwd) ==
  StartsWith(PathString(PathJoin(PROJECT_ROOT, cwd)), PathString(PROJECT_ROOT))

\* what containment means: the root's segments are a prefix of the path's
UnderRoot(segs) ==
  /\ Len(segs) >= Len(PROJECT_ROOT)
  /\ SubSeq(segs, 1, Len(PROJECT_ROOT)) = PROJECT_ROOT

StrictlyInsideRoot(segs) == UnderRoot(segs) /\ Len(segs) > Len(PROJECT_ROOT)

\* ------------------------------------------------------------ arithmetic
Min(a, b) == IF a < b THEN a ELSE b
Max(a, b) == IF a > b THEN a ELSE b
CeilDiv(a, b) == (a + b - 1) \div b
\* Math.round of a non-negative quotient n / d
RoundDiv(n, d) == (2 * n + d) \div (2 * d)

RECURSIVE SumSeq(_)
SumSeq(s) == IF s = <<>> THEN 0 ELSE Head(s) + SumSeq(Tail(s))

Range(s) == {s[i] : i \in DOMAIN s}

\* ------------------------------------------------------------ model output
\* What the parsers (parseFiles, parseExecBlocks, parseSubtasks) return for a
\* model response, with the token count of the response.
\* the markers of a FILE block that scoreOutput looks for in the raw text
FileMarkers == {"===FILE===", "===CONTENT===", "===END_FILE==="}

OutText == [files |-> <<>>, execs |-> <<>>, subtasks |-> <<>>, tokens |-> 400, markers |-> {}]
OutFile == [files |-> <<P_in>>, execs |-> <<>>, subtasks |-> <<>>, tokens |-> 400, markers |-> FileMarkers]
OutFileExec == [files |-> <<P_in>>, execs |-> <<P_out, P_in>>, subtasks |-> <<>>,
                tokens |-> 1500, markers |-> FileMarkers]
OutEscape == [files |-> <<P_out>>, execs |-> <<P_sibling>>, subtasks |-> <<>>,
              tokens |-> 1500, markers |-> FileMarkers]
OutExecOnly == [files |-> <<>>, execs |-> <<P_in>>, subtasks |-> <<>>, tokens |-> 400,
                markers |-> {}]
OutLong == [files |-> <<>>, execs |-> <<>>, subtasks |-> <<>>, tokens |-> 6000, markers |-> {}]
OutSub == [files |-> <<>>, execs |-> <<>>,
           subtasks |-> << [title |-> "plain", agent |-> "auto"] >>,
           tokens |-> 400, markers |-> {}]

\* no response
OutNone == [files |-> <<>>, execs |-> <<>>, subtasks |-> <<>>, tokens |-> 0, markers |-> {}]

Outputs == {OutText, OutFile, OutFileExec, OutEscape, OutExecOnly}

\* ------------------------------------------------------------ the parsers
\* A model response is a sequence of tokens: the markers and keys of the
\* output format and the characters "a", " " and newline.
Whitespace == {" ", "\n"}

RECURSIVE trimEnd(_)
\* String.prototype.trimEnd
trimEnd(str) ==
  IF str # <<>> /\ str[Len(str)] \in Whitespace THEN trimEnd(SubSeq(str, 1, Len(str) - 1))
  ELSE str

RECURSIVE trimStart(_)
trimStart(str) ==
  IF str # <<>> /\ Head(str) \in Whitespace THEN trimStart(Tail(str)) ELSE str

\* String.prototype.trim
trim(str) == trimStart(trimEnd(str))

\* the index of the first tok in text at or after from, 0 when there is none
IndexFrom(text, tok, from) ==
  LET at == {i \in DOMAIN text : i >= from /\ text[i] = tok}
  IN IF at = {} THEN 0 ELSE CHOOSE i \in at : \A j \in at : i <= j

\* the index after a marker at m at which "\s*\n" followed by key matches
KeyAfter(text, m, key) ==
  LET rest == {i \in DOMAIN text : i > m /\ text[i] \notin Whitespace}
      k == IF rest = {} THEN 0 ELSE CHOOSE i \in rest : \A j \in rest : i <= j
  IN IF m > 0 /\ k > m + 1 /\ text[k] = key /\ text[k - 1] = "\n" THEN k ELSE 0

\* "\s*(.+)\n" matches raw followed by a newline: whitespace, then at least
\* one character of one line
MatchesLine(raw) ==
  LET t == trimStart(raw)
  IN \/ t # <<>> /\ \A i \in DOMAIN t : t[i] # "\n"
     \/ t = <<>> /\ raw # <<>> /\ raw[Len(raw)] = " "

\* parseFiles(output).files, for the first match of
\* /===FILE===\s*\npath:\s*(.+)\n===CONTENT===\n([\s\S]*?)===END_FILE===/
parseFiles(text) ==
  LET k == KeyAfter(text, IndexFrom(text, "===FILE===", 1), "path:")
      c == IF k = 0 THEN 0 ELSE IndexFrom(text, "===CONTENT===", k + 1)
      e == IF c = 0 THEN 0 ELSE IndexFrom(text, "===END_FILE===", c + 2)
  IN IF /\ k > 0 /\ c > k + 1 /\ e > 0
        /\ text[c - 1] = "\n" /\ text[c + 1] = "\n"
        /\ MatchesLine(SubSeq(text, k + 1, c - 2))
     THEN << [path |-> trim(SubSeq(text, k + 1, c - 2)),
              content |-> trimEnd(SubSeq(text, c + 2, e - 1))] >>
     ELSE <<>>

\* parseExecBlocks(output), for the first match of
\* /===EXEC===\s*\ncwd:\s*(.+)\ncmd:\s*(.+)\n===END_EXEC===/
parseExecBlocks(text) ==
  LET k == KeyAfter(text, IndexFrom(text, "===EXEC===", 1), "cwd:")
      m == IF k = 0 THEN 0 ELSE IndexFrom(text, "cmd:", k + 1)
      e == IF m = 0 THEN 0 ELSE IndexFrom(text, "===END_EXEC===", m + 1)
  IN IF /\ k > 0 /\ m > k + 1 /\ e > m + 1
        /\ text[m - 1] = "\n" /\ text[e - 1] = "\n"
        /\ MatchesLine(SubSeq(text, k + 1, m - 2))
        /\ MatchesLine(SubSeq(text, m + 1, e - 2))
     THEN << [cwd |-> trim(SubSeq(text, k + 1, m - 2)),
              cmd |-> trim(SubSeq(text, m + 1, e - 2))] >>
     ELSE <<>>

\* parseSubtasks(output), for the first match of
\* /===SUBTASK===\s*\ntitle:\s*(.+)\nagent:\s*(.+)\ndescription:\s*([\s\S]*?)===END_SUBTASK===/
parseSubtasks(text) ==
  LET k == KeyAfter(text, IndexFrom(text, "===SUBTASK===", 1), "title:")
      g == IF k = 0 THEN 0 ELSE IndexFrom(text, "agent:", k + 1)
      d == IF g = 0 THEN 0 ELSE IndexFrom(text, "description:", g + 1)
      e == IF d = 0 THEN 0 ELSE IndexFrom(text, "===END_SUBTASK===", d + 1)
  IN IF /\ k > 0 /\ g > k + 1 /\ d > g + 1 /\ e > 0
        /\ text[g - 1] = "\n" /\ text[d - 1] = "\n"
        /\ MatchesLine(SubSeq(text, k + 1, g - 2))
        /\ MatchesLine(SubSeq(text, g + 1, d - 2))
     THEN << [title |-> trim(SubSeq(text, k + 1, g - 2)),
              agent |-> trim(SubSeq(text, g + 1, d - 2)),
              description |-> trim(SubSeq(text, d + 1, e - 1))] >>
     ELSE <<>>

\* what executeTask takes from a response
Parse(text) ==
  [files |-> parseFiles(text), execs |-> parseExecBlocks(text),
   subtasks |-> parseSubtasks(text)]

\* The text of a block in the output format of the system prompt; sep is
\* what the writer puts between a file's content and its end marker
\* (nothing, or a newline).
Render(B, sep) ==
  (IF B.files = <<>> THEN <<>>
   ELSE <<"===FILE===", "\n", "path:", " ">> \o B.files[1].path
        \o <<"\n", "===CONTENT===", "\n">> \o B.files[1].content \o sep
        \o <<"===END_FILE===">>)
  \o (IF B.execs = <<>> THEN <<>>
      ELSE <<"===EXEC===", "\n", "cwd:", " ">> \o B.execs[1].cwd
           \o <<"\n", "cmd:", " ">> \o B.execs[1].cmd \o <<"\n", "===END_EXEC===">>)
  \o (IF B.subtasks = <<>> THEN <<>>
      ELSE <<"===SUBTASK===", "\n", "title:", " ">> \o B.subtasks[1].title
           \o <<"\n", "agent:", " ">> \o B.subtasks[1].agent
           \o <<"\n", "description:", " ">> \o B.subtasks[1].description
           \o <<"\n", "===END_SUBTASK===">>)

\* the one-line fields of a well-formed block, its multi-line descriptions and
\* its file contents: every text of at most MaxContent characters
Lines == {<<"a">>, <<"a", " ", "a">>}
Descriptions == {<<"a">>, <<"a", "\n", "a">>}
Contents == UNION {[1..n -> {"a", " ", "\n"}] : n \in 0..MaxContent}

WellFormedBlocks ==
  {[files |-> <<[path |-> p, content |-> c]>>, execs |-> <<>>, subtasks |-> <<>>]
     : p \in Lines, c \in Contents}
  \cup {[files |-> <<>>, execs |-> <<[cwd |-> p, cmd |-> c]>>, subtasks |-> <<>>]
          : p \in Lines, c \in Lines}
  \cup {[files |-> <<>>, execs |-> <<>>,
         subtasks |-> <<[title |-> p, agent |-> <<"a">>, description |-> c]>>]
          : p \in Lines, c \in Descriptions}

\* no response parsed yet
NoParse == [block |-> [files |-> <<>>, execs |-> <<>>, subtasks |-> <<>>], text |-> <<>>,
            result |-> [files |-> <<>>, execs |-> <<>>, subtasks |-> <<>>]]

\* The errors a failed backend call throws: an HTTP status (err.status),
\* "timeout" (no status, a message with "timed out"), "none" (no status and
\* no such message).
ErrorKinds == {"429", "500", "404", "timeout", "none"}

AgentIds == {"a", "b"}
Titles == {"plain"}

\* ====================================================================
\* The dev server (dev-server.js)
\* ====================================================================
VARIABLES
  agents,            \* the agents array: records, in registration order
  tasks,             \* the tasks array: records, in creation order
  taskCounter,
  archivedTaskCount,
  autoApproveAll,
  performanceLog,    \* memory.performanceLog: agent id -> <<[type, scores, avg, count]>>
  activity,          \* the events published by addActivity, as [type, agentId, task]
  runs,              \* the executeTask calls in flight: task id -> their position
  approvals,         \* the approveTask calls in flight
  written,           \* files written to disk: [task, path, via, n], the n-th time
  executed,          \* commands run: [task, cwd, via, n], the n-th time
  approveCmds,       \* task ids for which command:approveTask was received
  taskHistory,       \* memory.taskHistory: its entries [id, timestamp], in key order
  broadcastPending,
  lastBroadcastTime,
  broadcastTimer,    \* the time at which scheduleBroadcast's setTimeout is due
  snapshots,         \* subscriber -> the state:full messages sent to it: [at, via, version]
  stateVersion,      \* the number of state changes the handlers made: what getFullState() shows
  parsed,            \* the input and the result of a function applied on its own
  now                \* Date.now()

\* the broadcaster's state
castVars == <<broadcastPending, lastBroadcastTime, broadcastTimer, snapshots, stateVersion>>

\* ---------------------------------------------------------- RL engine
\* classifyTask: the categories whose pattern matches the title and description
classifyTask(title) == IF title = "test" THEN <<"test">> ELSE <<"general">>

\* scoreOutput(task, result, files, execBlocks, execResults)
\* (execRan: execResults is defined)
scoreOutput(status, out, nFiles, nExecBlocks, execRan, execResults) ==
  LET fileScore == IF nFiles > 0 THEN 20 + Min(20, nFiles * 5) ELSE 0
      markerScore == 5 * Cardinality(out.markers \cap FileMarkers)
      execScore ==
        IF nExecBlocks > 0 /\ execRan
        THEN RoundDiv(Cardinality({i \in DOMAIN execResults : execResults[i]}) * 15,
                      nExecBlocks)
        ELSE IF nExecBlocks = 0 THEN 10 ELSE 0
      T == out.tokens
      tokenScore == IF T > 0 /\ T < 500 THEN 15
                    ELSE IF T < 2000 THEN 12
                    ELSE IF T < 5000 THEN 8
                    ELSE IF T < 10000 THEN 4 ELSE 0
      statusScore == IF status # "failed" THEN 15 ELSE 0
  IN Min(100, Max(0, fileScore + markerScore + execScore + tokenScore + statusScore))

\* log.scores.slice(-20), mutated: slice(0, 20)
FirstN(s, n) == IF Len(s) > n THEN SubSeq(s, 1, n) ELSE s

\* log.scores.slice(-20)
LastN(s, n) == IF Len(s) > n THEN SubSeq(s, Len(s) - n + 1, Len(s)) ELSE s

HasType(agentLog, type) == \E i \in DOMAIN agentLog : agentLog[i].type = type
TypeEntry(agentLog, type) == agentLog[CHOOSE i \in DOMAIN agentLog : agentLog[i].type = type]

\* one iteration of recordPerformance's loop over the task types
RecordOne(agentLog, type, score, ts) ==
  LET old == IF HasType(agentLog, type) THEN TypeEntry(agentLog, type).scores ELSE <<>>
      kept == LastN(Append(old, [score |-> score, timestamp |-> ts]), PerfKeep)
      entry == [type |-> type, scores |-> kept, count |-> Len(kept),
                avg |-> RoundDiv(SumSeq([i \in DOMAIN kept |-> kept[i].score]), Len(kept))]
  IN IF HasType(agentLog, type)
     THEN [i \in DOMAIN agentLog |-> IF agentLog[i].type = type THEN entry ELSE agentLog[i]]
     ELSE Append(agentLog, entry)

RECURSIVE RecordTypes(_, _, _, _)
RecordTypes(agentLog, types, score, ts) ==
  IF types = <<>> THEN agentLog
  ELSE RecordTypes(RecordOne(agentLog, Head(types), score, ts), Tail(types), score, ts)

\* recordPerformance(agentId, taskTypes, score, taskId)
recordPerformance(log, agentId, types, score, ts) ==
  [log EXCEPT ![agentId] = RecordTypes(log[agentId], types, score, ts)]

\* getAgentScore(agentId, taskType)
getAgentScore(log, agentId, type) ==
  IF ~HasType(log[agentId], type) \/ TypeEntry(log[agentId], type).count = 0
  THEN DefaultScore
  ELSE TypeEntry(log[agentId], type).avg

\* getAgentOverallScore(agentId): Math.round of the mean of (t.avg || 50)
getAgentOverallScore(log, agentId) ==
  LET types == log[agentId]
      total == SumSeq([i \in DOMAIN types |-> IF types[i].avg = 0 THEN DefaultScore
                                              ELSE types[i].avg])
  IN IF types = <<>> THEN DefaultScore ELSE RoundDiv(total, Len(types))

RECURSIVE AllScores(_)
AllScores(agentLog) ==
  IF agentLog = <<>> THEN <<>> ELSE Head(agentLog).scores \o AllScores(Tail(agentLog))

\* the first k elements of s sorted by timestamp, newest first (a stable sort)
RECURSIVE NewestFirst(_, _)
NewestFirst(s, k) ==
  IF s = <<>> \/ k = 0 THEN <<>>
  ELSE LET m == CHOOSE i \in DOMAIN s :
                  /\ \A j \in DOMAIN s : s[j].timestamp <= s[i].timestamp
                  /\ \A j \in 1..(i - 1) : s[j].timestamp < s[i].timestamp
       IN <<s[m]>> \o NewestFirst(SubSeq(s, 1, m - 1) \o SubSeq(s, m + 1, Len(s)), k - 1)

\* getRecentFailures(agentId)
getRecentFailures(log, agentId) ==
  LET recent == NewestFirst(AllScores(log[agentId]), RecentWindow)
  IN Cardinality({i \in DOMAIN recent : recent[i].score < FailBelow})

\* ------------------------------------------------------- agent selection
IsBridge(provider) == provider \in {"cursor-bridge", "copilot-bridge"}

\* getCallableAgents, mutated: the status filter is dropped
CallableAnyStatus(ags) == {i \in DOMAIN ags : ~IsBridge(ags[i].provider)}

\* getCallableAgents(): positions in the agents array
getCallableAgents(ags) ==
  {i \in DOMAIN ags : /\ ags[i].status = "idle"
                      /\ ~IsBridge(ags[i].provider)
                      /\ ags[i].status # "offline"}

\* the score pickAgent gives a candidate, times the number of task types
PickScore(log, agentId, types) ==
  LET n == Len(types)
      sum == SumSeq([i \in DOMAIN types |-> getAgentScore(log, agentId, types[i])])
      total == SumSeq([i \in DOMAIN types |->
                        IF HasType(log[agentId], types[i])
                        THEN TypeEntry(log[agentId], types[i]).count ELSE 0])
      bonus == IF total < ExploreBelow THEN ExplorationBonus ELSE 0
  IN sum + n * (bonus - getRecentFailures(log, agentId) * 10)

\* pickAgent, mutated: the draw is among all the callable agents
pickAgentAnyCallable(ags, log, preferred, title) ==
  LET available == getCallableAgents(ags)
      named == {i \in available : ags[i].id = preferred}
  IN IF preferred # "auto" /\ named # {}
     THEN {CHOOSE i \in named : \A j \in named : i <= j}
     ELSE available

\* pickAgent(preferredAgentId, title, description): the agents it may return
\* (the weighted draw gives each of the top three a positive probability);
\* the empty set when it returns null
pickAgent(ags, log, preferred, title) ==
  LET available == getCallableAgents(ags)
      named == {i \in available : ags[i].id = preferred}
      types == classifyTask(title)
      sc(i) == PickScore(log, ags[i].id, types)
      before(i) == {j \in available : sc(j) > sc(i) \/ (sc(j) = sc(i) /\ j < i)}
  IN IF available = {} THEN {}
     ELSE IF preferred # "auto" /\ named # {}
          THEN {CHOOSE i \in named : \A j \in named : i <= j}
          ELSE {i \in available : Cardinality(before(i)) < TopN}

\* ------------------------------------------------------------- helpers
HasTask(tk, id) == \E i \in DOMAIN tk : tk[i].id = id
TaskOf(tk, id) == tk[CHOOSE i \in DOMAIN tk : tk[i].id = id]

Event(type, agentId, task) == [type |-> type, agentId |-> agentId, task |-> task]

\* The model keeps of the activity log the events that a task's pipeline
\* publishes (executeTask and its runExecBlocks call, under the agent's id),
\* grouped by task, each group in the order of publication.
Tracked == {"agent:working", "file:auto-applied", "exec:starting", "exec:running", "exec:done",
            "exec:error", "exec:blocked", "task:review-needed", "rl:scored",
            "agent:completed", "agent:error"}

\* activity.push(entry), for one event
Keep(act, e) ==
  IF e.type \in Tracked /\ e.agentId # "system"
  THEN IF e.task \in DOMAIN act
       THEN [act EXCEPT ![e.task] = Append(@, e.type)]
       ELSE act @@ (e.task :> <<e.type>>)
  ELSE act

RECURSIVE Log(_, _)
\* addActivity, for a sequence of events
Log(act, events) == IF events = <<>> THEN act ELSE Log(Keep(act, Head(events)), Tail(events))

\* cleanupTasks(): the ids archived
ArchiveIds(tk) ==
  LET fin == {i \in DOMAIN tk : tk[i].status \in {"completed", "cancelled", "failed"}}
      key(i) == IF tk[i].completed = NoTime THEN 0 ELSE tk[i].completed
      before(i) == {j \in fin : key(j) < key(i) \/ (key(j) = key(i) /\ j < i)}
  IN IF Cardinality(fin) > MAX_VISIBLE
     THEN {tk[i].id : i \in {i \in fin : Cardinality(before(i)) < Cardinality(fin) - MAX_VISIBLE}}
     ELSE {}

\* a clean-up that counts the archived tasks and leaves them in the list
cleanupTasksKeepsAll(tk) == tk

cleanupTasks(tk) == LET gone == ArchiveIds(tk) IN SelectSeq(tk, LAMBDA t : t.id \notin gone)

vars == <<agents, tasks, taskCounter, archivedTaskCount, autoApproveAll, performanceLog,
          activity, runs, approvals, written, executed, approveCmds, taskHistory, castVars, parsed,
          now>>

\* the part of the state that createTask and runDispatch work on
World == [agents |-> agents, tasks |-> tasks, runs |-> runs, activity |-> activity,
          taskCounter |-> taskCounter, archived |-> archivedTaskCount, history |-> taskHistory]

\* loadAgents / command:addAgent: a fresh agent record
NewAgent(id, provider) ==
  [id |-> id, provider |-> provider, status |-> "idle",
   energy |-> StartEnergy, maxEnergy |-> StartEnergy, xp |-> 0, level |-> 1,
   tasksCompleted |-> 0, totalTokensUsed |-> 0, currentTaskId |-> NoTask,
   errorCount |-> 0, cooldownUntil |-> NoTime]

\* task.result before the pipeline sets it (null)
NoResult == [has |-> FALSE, success |-> FALSE, output |-> Null, rawOutput |-> OutNone,
             fileContents |-> <<>>, execBlocks |-> <<>>, execRan |-> FALSE,
             execResults |-> <<>>, tokensUsed |-> 0]

UpdTask(tk, id, f(_)) == [i \in DOMAIN tk |-> IF tk[i].id = id THEN f(tk[i]) ELSE tk[i]]

Without(f, k) == [x \in DOMAIN f \ {k} |-> f[x]]

\* runDispatch's loop body, mutated: task.started is not set
AssignWithoutStart(W, tid, a, ts) ==
  LET t == TaskOf(W.tasks, tid) IN
  [W EXCEPT
     !.agents = [W.agents EXCEPT ![a].status = "working", ![a].currentTaskId = tid],
     !.tasks = UpdTask(W.tasks, tid,
                 LAMBDA x : [x EXCEPT !.status = "active",
                                      !.assignedAgentId = W.agents[a].id]),
     !.runs = W.runs @@ (tid :> [agent |-> a, pc |-> "call", i |-> 1, out |-> OutText,
                                 title |-> t.title, risk |-> t.risk, results |-> <<>>]),
     !.activity = Log(W.activity, <<Event("agent:working", W.agents[a].id, tid)>>)]

\* runDispatch, the body of its loop once an agent was picked, with the
\* synchronous start of executeTask (up to its await of callModel)
Assign(W, tid, a, ts) ==
  LET t == TaskOf(W.tasks, tid) IN
  [W EXCEPT
     !.agents = [W.agents EXCEPT ![a].status = "working", ![a].currentTaskId = tid],
     !.tasks = UpdTask(W.tasks, tid,
                 LAMBDA x : [x EXCEPT !.status = "active",
                                      !.assignedAgentId = W.agents[a].id,
                                      !.started = ts]),
     !.runs = W.runs @@ (tid :> [agent |-> a, pc |-> "call", i |-> 1, out |-> OutText,
                                 title |-> t.title, risk |-> t.risk, results |-> <<>>]),
     !.activity = Log(W.activity, <<Event("agent:working", W.agents[a].id, tid)>>)]

RECURSIVE DispatchFrom(_, _, _, _)
\* runDispatch's loop, mutated: a task no agent is picked for is failed
DispatchFailsUnpicked(ids, W, log, ts) ==
  IF ids = <<>> THEN {W}
  ELSE LET t == TaskOf(W.tasks, Head(ids))
           picks == pickAgent(W.agents, log, t.preferredAgentId, t.title)
           failed == [W EXCEPT !.tasks = UpdTask(W.tasks, t.id,
                                           LAMBDA x : [x EXCEPT !.status = "failed"])]
       IN IF picks = {} THEN DispatchFrom(Tail(ids), failed, log, ts)
          ELSE UNION {DispatchFrom(Tail(ids), Assign(W, t.id, a, ts), log, ts) : a \in picks}

\* runDispatch's loop over the tasks that were pending when it started
DispatchFrom(ids, W, log, ts) ==
  IF ids = <<>> THEN {W}
  ELSE LET t == TaskOf(W.tasks, Head(ids))
           picks == pickAgent(W.agents, log, t.preferredAgentId, t.title)
       IN IF picks = {} THEN DispatchFrom(Tail(ids), W, log, ts)
          ELSE UNION {DispatchFrom(Tail(ids), Assign(W, t.id, a, ts), log, ts) : a \in picks}

PendingIds(tk) ==
  LET p == SelectSeq(tk, LAMBDA t : t.status = "pending") IN [i \in DOMAIN p |-> p[i].id]

\* runDispatch(): the states it may leave
runDispatch(W, log, ts) == DispatchFrom(PendingIds(W.tasks), W, log, ts)

\* createTask: autoApproveAll ? 'low' : (/test|doc|.../i.test(title) ? 'low' : 'high')
TaskRisk(auto, title) == IF auto THEN "low" ELSE IF title = "test" THEN "low" ELSE "high"

\* createTask, mutated: the id is numbered by the length of the live list
createTaskNumberedByList(W, title, preferred, auto, log, ts) ==
  LET id == Len(W.tasks) + 1
      task == [id |-> id, title |-> title, status |-> "pending",
               risk |-> TaskRisk(auto, title), assignedAgentId |-> Null,
               createdBy |-> [kind |-> "user", id |-> Null], parentTaskId |-> NoTask, depth |-> 0,
               started |-> NoTime, completed |-> NoTime, result |-> NoResult,
               preferredAgentId |-> preferred]
      W1 == [W EXCEPT !.taskCounter = @ + 1,
                      !.tasks = Append(W.tasks, task),
                      !.activity = Log(W.activity, <<Event("task:created", "system", id)>>)]
  IN runDispatch(W1, log, ts)

\* createTask(title, description, preferredAgentId), runDispatch included
createTask(W, title, preferred, auto, log, ts) ==
  LET id == W.taskCounter + 1
      task == [id |-> id, title |-> title, status |-> "pending",
               risk |-> TaskRisk(auto, title), assignedAgentId |-> Null,
               createdBy |-> [kind |-> "user", id |-> Null], parentTaskId |-> NoTask, depth |-> 0,
               started |-> NoTime, completed |-> NoTime, result |-> NoResult,
               preferredAgentId |-> preferred]
      W1 == [W EXCEPT !.taskCounter = id,
                      !.tasks = Append(W.tasks, task),
                      !.activity = Log(W.activity, <<Event("task:created", "system", id)>>)]
  IN runDispatch(W1, log, ts)

\* executeTask's finally block, mutated: currentTaskId is not cleared
FinallyKeepsTask(W, tid, a) ==
  LET kept == cleanupTasks(W.tasks) IN
  [W EXCEPT
     !.agents = [W.agents EXCEPT ![a].status = IF @ = "working" THEN "idle" ELSE @],
     !.archived = @ + Cardinality(ArchiveIds(W.tasks)),
     !.tasks = kept,
     !.runs = Without(W.runs, tid)]

\* the end of executeTask: its finally block
Finally(W, tid, a) ==
  LET kept == cleanupTasks(W.tasks) IN
  [W EXCEPT
     !.agents = [W.agents EXCEPT
                   ![a].status = IF @ = "working" THEN "idle" ELSE @,
                   ![a].currentTaskId = NoTask],
     !.archived = @ + Cardinality(ArchiveIds(W.tasks)),
     !.tasks = kept,
     !.runs = Without(W.runs, tid)]

\* executeTask's subtask loop, mutated: the child's depth is left as created
ChildWithoutDepth(x, parentId, parentDepth, agentId) ==
  [x EXCEPT !.parentTaskId = parentId, !.createdBy = [kind |-> "agent", id |-> agentId]]

\* executeTask's subtask loop: childTask.parentTaskId, .depth and .createdBy
ChildOf(x, parentId, parentDepth, agentId) ==
  [x EXCEPT !.parentTaskId = parentId,
            !.depth = parentDepth + 1,
            !.createdBy = [kind |-> "agent", id |-> agentId]]

RECURSIVE SpawnSubtasks(_, _, _, _, _, _, _, _)
\* executeTask's loop over the parsed subtasks
SpawnSubtasks(W, subs, parentId, parentDepth, agentId, auto, log, ts) ==
  IF subs = <<>> THEN {W}
  ELSE LET sub == Head(subs)
           id == W.taskCounter + 1
           child(V) ==
             [V EXCEPT
                !.tasks = UpdTask(V.tasks, id,
                            LAMBDA x : ChildOf(x, parentId, parentDepth, agentId)),
                !.activity = Log(@, <<Event("task:spawned", agentId, id)>>)]
       IN UNION {SpawnSubtasks(child(V), Tail(subs), parentId, parentDepth, agentId,
                               auto, log, ts)
                 : V \in createTask(W, sub.title, sub.agent, auto, log, ts)}

\* saveMemory's cap, mutated: the sort is ascending, the oldest are kept
saveMemoryKeepsOldest(hist) ==
  IF Len(hist) > HistoryCap
  THEN LET flipped == [i \in DOMAIN hist |-> [hist[i] EXCEPT !.timestamp = 0 - @]]
           kept == NewestFirst(flipped, HistoryCap)
       IN [i \in DOMAIN kept |-> [kept[i] EXCEPT !.timestamp = 0 - @]]
  ELSE hist

\* saveMemory(): more than 50 entries are sorted by descending timestamp and
\* the first 50 are kept
saveMemory(hist) ==
  IF Len(hist) > HistoryCap THEN NewestFirst(hist, HistoryCap) ELSE hist

\* memory.taskHistory[task.id] = {..., timestamp: Date.now()}: a new key is
\* added last, an existing key keeps its place
PutHistory(hist, id, ts) ==
  IF \E i \in DOMAIN hist : hist[i].id = id
  THEN [i \in DOMAIN hist |-> IF hist[i].id = id THEN [hist[i] EXCEPT !.timestamp = ts]
                                                 ELSE hist[i]]
  ELSE Append(hist, [id |-> id, timestamp |-> ts])

\* saveTaskToMemory(task, agent)
saveTaskToMemory(hist, id, ts) == saveMemory(PutHistory(hist, id, ts))

\* executeTask's test before its subtask loop, mutated: the depth is not looked at
MaySpawnAtAnyDepth(nSubtasks, depth) == nSubtasks > 0

\* executeTask: subtasks.length > 0 && task.depth < 3
MaySpawn(nSubtasks, depth) == nSubtasks > 0 /\ depth < MaxTaskDepth

\* executeTask after the task's status was set on the success path: scoring,
\* the subtasks, the finally block. The states it may leave, with the log.
Epilogue(W, log, tid, run, status, execRan, auto, ts) ==
  LET a == run.agent
      agentId == W.agents[a].id
      out == run.out
      perfScore == scoreOutput(status, out, Len(out.files), Len(out.execs),
                               execRan, run.results)
      log1 == recordPerformance(log, agentId, classifyTask(run.title), perfScore, ts)
      W1 == [W EXCEPT !.activity = Log(@, <<Event("rl:scored", agentId, tid)>>),
                      !.history = saveTaskToMemory(@, tid, ts)]
      depth == TaskOf(W.tasks, tid).depth
      spawned == IF MaySpawn(Len(out.subtasks), depth)
                 THEN SpawnSubtasks(W1, out.subtasks, tid, depth, agentId, auto, log1, ts)
                 ELSE {W1}
  IN {[W |-> Finally([V EXCEPT !.activity = Log(@, <<Event("agent:xp-gained", agentId, tid)>>)],
                     tid, a),
       log |-> log1] : V \in spawned}

\* executeTask marks the task completed
MarkCompleted(W, tid, agentId, execRan, results, ts) ==
  [W EXCEPT
     !.tasks = UpdTask(W.tasks, tid,
                 LAMBDA x : [x EXCEPT !.status = "completed", !.completed = ts,
                                      !.result.execRan = execRan,
                                      !.result.execResults = results]),
     !.activity = Log(@, <<Event("agent:completed", agentId, tid)>>)]

\* executeTask's catch: err.status === 400 || 500 || 502 || 503, or
\* err.message includes 'timed out', 'timeout' or 'ECONNREFUSED'
isApiError(kind) == kind \in {"400", "500", "502", "503"} \/ kind = "timeout"

\* executeTask's catch: isApiError ? 25 : 0
FailScore(kind) == IF isApiError(kind) THEN 25 ELSE 0

\* executeTask's catch: err.status === 429
IsRateLimit(kind) == kind = "429"

\* executeTask's catch and finally blocks, for an error of the given kind
Catch(W, log, tid, run, kind, ts) ==
  LET a == run.agent
      agentId == W.agents[a].id
      failed == [has |-> TRUE, success |-> FALSE, output |-> kind, rawOutput |-> OutNone,
                 fileContents |-> <<>>, execBlocks |-> <<>>, execRan |-> FALSE,
                 execResults |-> <<>>, tokensUsed |-> 0]
      W1 == [W EXCEPT
               !.tasks = UpdTask(W.tasks, tid,
                           LAMBDA x : [x EXCEPT !.status = "failed", !.completed = ts,
                                                !.result = failed]),
               !.agents = [W.agents EXCEPT
                             ![a].errorCount = @ + 1,
                             ![a].cooldownUntil = IF IsRateLimit(kind) THEN ts + CooldownMs ELSE @,
                             ![a].status = IF IsRateLimit(kind) THEN "cooldown" ELSE @],
               !.activity = Log(@, <<Event("rl:scored", agentId, tid),
                                     Event("agent:error", agentId, tid)>>
                                     \o (IF IsRateLimit(kind)
                                         THEN <<Event("agent:cooldown", agentId, tid)>>
                                         ELSE <<>>))]
  IN [W |-> Finally(W1, tid, a),
      log |-> recordPerformance(log, agentId, classifyTask(run.title), FailScore(kind), ts)]

\* the variables a pipeline step may change, set from one outcome
Commit(R) ==
  /\ agents' = R.W.agents
  /\ tasks' = R.W.tasks
  /\ runs' = R.W.runs
  /\ activity' = R.W.activity
  /\ taskCounter' = R.W.taskCounter
  /\ archivedTaskCount' = R.W.archived
  /\ taskHistory' = R.W.history
  /\ performanceLog' = R.log

\* --------------------------------------------------------------- Init
\* the agents of agent_os/agents.json, as loadAgents returns them
InitialAgents == <<NewAgent("a", "openai-compatible")>>

Init ==
  /\ agents = InitialAgents
  /\ tasks = <<>>
  /\ taskCounter = 0
  /\ archivedTaskCount = 0
  /\ autoApproveAll = TRUE
  /\ performanceLog = [id \in AgentIds |-> <<>>]
  /\ activity = <<>>
  /\ runs = <<>>
  /\ approvals = <<>>
  /\ written = {}
  /\ executed = {}
  /\ approveCmds = {}
  /\ taskHistory = <<>>
  /\ broadcastPending = FALSE
  /\ lastBroadcastTime = 0
  /\ broadcastTimer = NoTime
  /\ parsed = NoParse
  /\ stateVersion = 0
  /\ snapshots = <<>>
  /\ now = 0

\* ----------------------------------------------------- client commands
Prefs == {"auto"}

\* command:createTask with one agentId (or none), and POST /api/task
CreateTaskOver(limit, titles, prefs) ==
  /\ taskCounter < limit
  /\ \E title \in titles, pref \in prefs :
       \E V \in createTask(World, title, pref, autoApproveAll, performanceLog, now) :
         Commit([W |-> V, log |-> performanceLog])
  /\ UNCHANGED <<parsed, castVars, autoApproveAll, approvals, written, executed, approveCmds, now>>

CreateTaskCmd == CreateTaskOver(MaxTasks, Titles, Prefs)

RECURSIVE CreateForEach(_, _, _, _, _, _)
CreateForEach(W, title, aids, auto, log, ts) ==
  IF aids = <<>> THEN {W}
  ELSE UNION {CreateForEach(V, title, Tail(aids), auto, log, ts)
              : V \in createTask(W, title, Head(aids), auto, log, ts)}

\* command:createTask with agentIds: one task per listed agent
CreateTaskMultiCmd ==
  /\ \E aids \in {<<"a", "b">>} :
       /\ taskCounter + Len(aids) <= PoolTasks
       /\ \E title \in Titles :
            \E V \in CreateForEach(World, title, aids, autoApproveAll, performanceLog, now) :
              Commit([W |-> V, log |-> performanceLog])
  /\ UNCHANGED <<parsed, castVars, autoApproveAll, approvals, written, executed, approveCmds, now>>

\* the configs a client may send with command:addAgent: <<id, provider>>
AddableAgents == {<<"a", "openai-compatible">>, <<"b", "openai-compatible">>,
                  <<"b", "cursor-bridge">>}

\* command:addAgent
AddAgentCmd ==
  /\ Len(agents) < MaxAgents
  /\ \E cfg \in AddableAgents :
       LET id == cfg[1]
           provider == cfg[2]
       IN
       /\ agents' = Append(agents, NewAgent(id, provider))
       /\ activity' = Log(activity, <<Event("agent:registered", id, NoTask)>>)
  /\ UNCHANGED <<parsed, taskHistory, castVars, tasks, taskCounter, archivedTaskCount, autoApproveAll, performanceLog, runs,
                 approvals, written, executed, approveCmds, now>>

\* command:rejectTask
RejectTaskOver(ids) ==
  \E tid \in ids :
    /\ tasks' = UpdTask(tasks, tid,
                  LAMBDA x : [x EXCEPT !.status = "cancelled", !.completed = now])
    /\ activity' = Log(activity, <<Event("task:rejected", "system", tid)>>)
    /\ UNCHANGED <<parsed, taskHistory, castVars, agents, taskCounter, archivedTaskCount, autoApproveAll, performanceLog, runs,
                   approvals, written, executed, approveCmds, now>>

RejectTaskCmd == RejectTaskOver(1..taskCounter)

\* command:toggleAutoApprove
ToggleAutoApproveCmd ==
  /\ autoApproveAll' = ~autoApproveAll
  /\ activity' = Log(activity, <<Event("config:changed", "system", NoTask)>>)
  /\ UNCHANGED <<parsed, taskHistory, castVars, agents, tasks, taskCounter, archivedTaskCount, performanceLog, runs,
                 approvals, written, executed, approveCmds, now>>

\* fs.writeFileSync / execSync has its effect e once more: the effects so far
\* with e, numbered by how many times it has happened (MaxRepeat stands for
\* that many times or more)
Again(done, e) ==
  done \cup {[e EXCEPT !.n = Min(MaxRepeat,
                                 1 + Cardinality({d \in done : [d EXCEPT !.n = 1] = e}))]}

\* approveTask: if (!task || !task.result) return
Approvable(tk, tid) == HasTask(tk, tid) /\ TaskOf(tk, tid).result.has

\* command:approveTask: approveTask up to its first await
ApproveTaskCmd ==
  \E tid \in 1..taskCounter :
    /\ approveCmds' = approveCmds \cup {tid}
    /\ IF ~Approvable(tasks, tid)
       THEN UNCHANGED <<parsed, tasks, activity, approvals>>
       ELSE LET r == TaskOf(tasks, tid).result IN
            IF Len(r.fileContents) > 0
            THEN /\ Len(approvals) < MaxApprovals
                 /\ approvals' = Append(approvals,
                                   [task |-> tid, pc |-> "write", i |-> 1,
                                    files |-> r.fileContents, execBlocks |-> r.execBlocks,
                                    results |-> <<>>])
                 /\ UNCHANGED <<parsed, tasks, activity>>
            ELSE /\ tasks' = UpdTask(tasks, tid,
                               LAMBDA x : [x EXCEPT !.status = "completed", !.completed = now])
                 /\ activity' = Log(activity, <<Event("task:approved", "system", tid)>>)
                 /\ UNCHANGED approvals
    /\ UNCHANGED <<parsed, taskHistory, castVars, agents, taskCounter, archivedTaskCount, autoApproveAll, performanceLog, runs,
                   written, executed, now>>

RemoveAt(s, k) == SubSeq(s, 1, k - 1) \o SubSeq(s, k + 1, Len(s))

\* approveTask's last lines: task.status = 'completed'
ApproveDone(tk, ap, execRan, results, ts) ==
  UpdTask(tk, ap.task,
    LAMBDA x : [x EXCEPT !.status = "completed", !.completed = ts,
                         !.result.execRan = IF execRan THEN TRUE ELSE @,
                         !.result.execResults = IF execRan THEN results ELSE @])

\* approveTask: one file of its writeFiles call is written, or the write fails
ApproveWriteStep ==
  \E k \in DOMAIN approvals, ok \in BOOLEAN :
    LET ap == approvals[k]
        last == ap.i = Len(ap.files)
    IN /\ ap.pc = "write"
       /\ written' = IF ok THEN Again(written, [task |-> ap.task, via |-> "approve", n |-> 1,
                                              path |-> PathJoin(PROJECT_ROOT, ap.files[ap.i])])
                     ELSE written
       /\ activity' = IF ok /\ last
                      THEN Log(activity, <<Event("task:approved", "system", ap.task)>>)
                      ELSE activity
       /\ IF ~ok THEN approvals' = RemoveAt(approvals, k) /\ UNCHANGED tasks
          ELSE IF ~last
               THEN approvals' = [approvals EXCEPT ![k].i = @ + 1] /\ UNCHANGED tasks
               ELSE IF Len(ap.execBlocks) > 0
                    THEN /\ approvals' = [approvals EXCEPT ![k].pc = "exec", ![k].i = 1]
                         /\ UNCHANGED tasks
                    ELSE /\ approvals' = RemoveAt(approvals, k)
                         /\ tasks' = ApproveDone(tasks, ap, FALSE, <<>>, now)
       /\ UNCHANGED <<parsed, taskHistory, castVars, agents, taskCounter, archivedTaskCount, autoApproveAll, performanceLog,
                      runs, executed, approveCmds, now>>

\* approveTask: one block of its runExecBlocks call
ApproveExecStep ==
  \E k \in DOMAIN approvals, ok \in BOOLEAN :
    LET ap == approvals[k]
        cwd == ap.execBlocks[ap.i]
        allowed == CwdAllowed(cwd)
        results == IF allowed THEN Append(ap.results, ok) ELSE ap.results
    IN /\ ap.pc = "exec"
       /\ allowed \/ ok
       /\ executed' = IF allowed
                      THEN Again(executed, [task |-> ap.task, via |-> "approve", n |-> 1,
                                            cwd |-> PathJoin(PROJECT_ROOT, cwd)])
                      ELSE executed
       /\ IF ap.i < Len(ap.execBlocks)
          THEN /\ approvals' = [approvals EXCEPT ![k].i = @ + 1, ![k].results = results]
               /\ activity' = Log(activity, IF allowed THEN <<>>
                                            ELSE <<Event("exec:blocked", "system", ap.task)>>)
               /\ UNCHANGED tasks
          ELSE /\ approvals' = RemoveAt(approvals, k)
               /\ activity' = Log(activity, (IF allowed THEN <<>>
                                              ELSE <<Event("exec:blocked", "system", ap.task)>>)
                                             \o <<Event("exec:done", "system", ap.task)>>)
               /\ tasks' = ApproveDone(tasks, ap, TRUE, results, now)
       /\ UNCHANGED <<parsed, taskHistory, castVars, agents, taskCounter, archivedTaskCount, autoApproveAll, performanceLog,
                      runs, written, approveCmds, now>>

\* --------------------------------------------------------- executeTask
\* executeTask's branch test, mutated: the risk is not looked at
AutoAppliesAnyRisk(nFiles, risk) == nFiles > 0

\* executeTask: files.length > 0 && task.risk === 'low'
AutoApplies(nFiles, risk) == nFiles > 0 /\ risk = "low"

\* executeTask steps 3 and 4: the agent's counters and task.result
Account(W, tid, run, out) ==
  LET a == run.agent
      T == out.tokens
      energyCost == Min(MaxEnergyCost, CeilDiv(T, 1000))
  IN [W EXCEPT
        !.agents = [W.agents EXCEPT
                      ![a].energy = Max(0, @ - energyCost),
                      ![a].totalTokensUsed = @ + T,
                      ![a].tasksCompleted = @ + 1,
                      ![a].xp = @ + 20 + Min(30, T \div 100),
                      ![a].level = ((W.agents[a].xp + 20 + Min(30, T \div 100)) \div 300) + 1],
        !.tasks = UpdTask(W.tasks, tid,
                    LAMBDA x : [x EXCEPT !.result =
                                  [has |-> TRUE, success |-> TRUE, output |-> "text",
                                   rawOutput |-> out, fileContents |-> out.files,
                                   execBlocks |-> <<>>, execRan |-> FALSE,
                                   execResults |-> <<>>, tokensUsed |-> T]]),
        !.runs = [W.runs EXCEPT ![tid].out = out]]

\* callModel returns: executeTask up to its next await, or to its end
ModelReturnsOver(outs, limit) ==
  \E tid \in DOMAIN runs, out \in outs :
    LET run == [runs[tid] EXCEPT !.out = out]
        agentId == agents[run.agent].id
        W0 == Account(World, tid, run, out)
        review == [W0 EXCEPT
                     !.tasks = UpdTask(W0.tasks, tid,
                                 LAMBDA x : [x EXCEPT !.status = "review",
                                                      !.result.execBlocks = out.execs]),
                     !.activity = Log(@, <<Event("task:review-needed", agentId, tid)>>)]
    IN /\ runs[tid].pc = "call"
       /\ taskCounter + Len(out.subtasks) <= limit
       /\ IF AutoApplies(Len(out.files), run.risk)
          THEN Commit([W |-> [W0 EXCEPT !.runs = [W0.runs EXCEPT ![tid].pc = "write"]],
                       log |-> performanceLog])
          ELSE IF Len(out.files) > 0 /\ run.risk = "high"
               THEN \E R \in Epilogue(review, performanceLog, tid, run, "review", FALSE,
                                      autoApproveAll, now) : Commit(R)
               ELSE \E R \in Epilogue(MarkCompleted(W0, tid, agentId, FALSE, <<>>, now),
                                      performanceLog, tid, run, "completed", FALSE,
                                      autoApproveAll, now) : Commit(R)
       /\ UNCHANGED <<parsed, castVars, autoApproveAll, approvals, written, executed, approveCmds, now>>

ModelReturns == ModelReturnsOver(Outputs, MaxTasks)

\* callModel throws
ModelFailsOver(kinds) ==
  \E tid \in DOMAIN runs, kind \in kinds :
    /\ runs[tid].pc = "call"
    /\ Commit(Catch(World, performanceLog, tid, runs[tid], kind, now))
    /\ UNCHANGED <<parsed, castVars, autoApproveAll, approvals, written, executed, approveCmds, now>>

ModelFails == ModelFailsOver(ErrorKinds)

\* writeFiles called by executeTask: one file is written, or the write throws
WriteFileStep ==
  \E tid \in DOMAIN runs, ok \in BOOLEAN :
    LET run == runs[tid]
        agentId == agents[run.agent].id
        last == run.i = Len(run.out.files)
        applied == [World EXCEPT
                      !.activity = Log(@, <<Event("file:auto-applied", agentId, tid)>>)]
    IN /\ run.pc = "write"
       /\ written' = IF ok THEN Again(written, [task |-> tid, via |-> "auto", n |-> 1,
                                              path |-> PathJoin(PROJECT_ROOT, run.out.files[run.i])])
                     ELSE written
       /\ IF ~ok THEN Commit(Catch(World, performanceLog, tid, run, "none", now))
          ELSE IF ~last
               THEN Commit([W |-> [World EXCEPT !.runs = [runs EXCEPT ![tid].i = @ + 1]],
                            log |-> performanceLog])
               ELSE IF Len(run.out.execs) > 0
                    THEN Commit([W |-> [applied EXCEPT
                                          !.runs = [runs EXCEPT ![tid].pc = "exec", ![tid].i = 1],
                                          !.activity = Log(@, <<Event("exec:starting", agentId, tid)>>)],
                                 log |-> performanceLog])
                    ELSE \E R \in Epilogue(MarkCompleted(applied, tid, agentId, FALSE, <<>>, now),
                                           performanceLog, tid, run, "completed", FALSE,
                                           autoApproveAll, now) : Commit(R)
       /\ UNCHANGED <<parsed, castVars, autoApproveAll, approvals, executed, approveCmds, now>>

\* runExecBlocks called by executeTask: one block is checked and run
ExecBlockStep ==
  \E tid \in DOMAIN runs, ok \in BOOLEAN :
    LET run == runs[tid]
        agentId == agents[run.agent].id
        cwd == run.out.execs[run.i]
        allowed == CwdAllowed(cwd)
        results == IF allowed THEN Append(run.results, ok) ELSE run.results
        noted == [World EXCEPT
                    !.activity = Log(@, IF ~allowed
                                        THEN <<Event("exec:blocked", agentId, tid)>>
                                        ELSE <<Event("exec:running", agentId, tid),
                                               Event(IF ok THEN "exec:done" ELSE "exec:error",
                                                     agentId, tid)>>)]
    IN /\ run.pc = "exec"
       /\ allowed \/ ok
       /\ executed' = IF allowed
                      THEN Again(executed, [task |-> tid, via |-> "auto", n |-> 1,
                                            cwd |-> PathJoin(PROJECT_ROOT, cwd)])
                      ELSE executed
       /\ IF run.i < Len(run.out.execs)
          THEN Commit([W |-> [noted EXCEPT
                                !.runs = [runs EXCEPT ![tid].i = @ + 1, ![tid].results = results]],
                       log |-> performanceLog])
          ELSE \E R \in Epilogue(MarkCompleted(noted, tid, agentId, TRUE, results, now),
                                 performanceLog, tid, [run EXCEPT !.results = results],
                                 "completed", TRUE, autoApproveAll, now) : Commit(R)
       /\ UNCHANGED <<parsed, castVars, autoApproveAll, approvals, written, approveCmds, now>>

\* -------------------------------------------------------------- timers
\* setInterval(runDispatch, 500)
DispatchTick ==
  /\ \E V \in runDispatch(World, performanceLog, now) : Commit([W |-> V, log |-> performanceLog])
  /\ UNCHANGED <<parsed, castVars, autoApproveAll, approvals, written, executed, approveCmds, now>>

\* the recharge timer: a.cooldownUntil && Date.now() > a.cooldownUntil
CooldownOver(a, ts) == a.cooldownUntil # NoTime /\ ts > a.cooldownUntil

\* the recharge timer for one agent, mutated: an expired cooldownUntil is
\* cleared and the status is left alone
RechargedKeepsStatus(a, ts) ==
  LET e == IF a.status # "offline"
           THEN [a EXCEPT !.energy = Min(a.maxEnergy, a.energy + Max(MinRecharge, MinRecharge))]
           ELSE a
  IN IF CooldownOver(e, ts) THEN [e EXCEPT !.cooldownUntil = NoTime] ELSE e

\* the recharge timer for one agent, mutated: the energy is not capped
RechargedUncapped(a, ts) ==
  LET e == IF a.status # "offline"
           THEN [a EXCEPT !.energy = a.energy + Max(MinRecharge, MinRecharge)]
           ELSE a
  IN IF CooldownOver(e, ts)
     THEN [e EXCEPT !.cooldownUntil = NoTime,
                    !.status = IF @ = "cooldown" THEN "idle" ELSE @]
     ELSE e

\* the recharge timer, for one agent
Recharged(a, ts) ==
  LET e == IF a.status # "offline"
           THEN [a EXCEPT !.energy = Min(a.maxEnergy, a.energy + Max(MinRecharge, MinRecharge))]
           ELSE a
  IN IF CooldownOver(e, ts)
     THEN [e EXCEPT !.cooldownUntil = NoTime,
                    !.status = IF @ = "cooldown" THEN "idle" ELSE @]
     ELSE e

\* setInterval(..., 30000): energy recharge and cooldown expiry
RechargeTick ==
  /\ agents' = [i \in DOMAIN agents |-> Recharged(agents[i], now)]
  /\ UNCHANGED <<parsed, taskHistory, castVars, tasks, taskCounter, archivedTaskCount, autoApproveAll, performanceLog, activity,
                 runs, approvals, written, executed, approveCmds, now>>

\* the clock advances by one cooldown length
TickMs == CooldownMs

\* time passes
Tick ==
  /\ now < MaxTicks * TickMs
  /\ now' = now + TickMs
  /\ UNCHANGED <<parsed, taskHistory, castVars, agents, tasks, taskCounter, archivedTaskCount, autoApproveAll, performanceLog,
                 activity, runs, approvals, written, executed, approveCmds>>

Next ==
  \/ CreateTaskCmd
  \/ AddAgentCmd
  \/ RejectTaskCmd
  \/ ToggleAutoApproveCmd
  \/ ApproveTaskCmd
  \/ ApproveWriteStep
  \/ ApproveExecStep
  \/ ModelReturns
  \/ ModelFails
  \/ WriteFileStep
  \/ ExecBlockStep
  \/ DispatchTick
  \/ RechargeTick
  \/ Tick

\* the dev server: every command, one task
Spec == Init /\ [][Next]_vars

\* ------------------------------------------------- the pool of agents
\* The dev server with several tasks competing for the agents: tasks are
\* created, dispatched, answered in plain text or with a subtask, or fail;
\* agents are added; time passes and the recharge timer runs.
PoolOutputs == {OutText, OutSub}

PoolCreateTask == CreateTaskOver(PoolTasks, Titles, Prefs)

PoolModelReturns == ModelReturnsOver(PoolOutputs, PoolTasks)

NextPool ==
  \/ PoolCreateTask
  \/ CreateTaskMultiCmd
  \/ AddAgentCmd
  \/ PoolModelReturns
  \/ ModelFails
  \/ DispatchTick
  \/ RechargeTick
  \/ Tick

SpecPool == Init /\ [][NextPool]_vars

\* ------------------------------------------- six configured agents
\* agent_os/agents.json with six callable agents
CapAgents == <<NewAgent("a1", "openai-compatible"), NewAgent("a2", "openai-compatible"),
               NewAgent("a3", "openai-compatible"), NewAgent("a4", "openai-compatible"),
               NewAgent("a5", "openai-compatible"), NewAgent("a6", "openai-compatible")>>

InitCap ==
  /\ agents = CapAgents
  /\ tasks = <<>>
  /\ taskCounter = 0
  /\ archivedTaskCount = 0
  /\ autoApproveAll = TRUE
  /\ performanceLog = [id \in {CapAgents[i].id : i \in DOMAIN CapAgents} |-> <<>>]
  /\ activity = <<>>
  /\ runs = <<>>
  /\ approvals = <<>>
  /\ written = {}
  /\ executed = {}
  /\ approveCmds = {}
  /\ taskHistory = <<>>
  /\ broadcastPending = FALSE
  /\ lastBroadcastTime = 0
  /\ broadcastTimer = NoTime
  /\ parsed = NoParse
  /\ stateVersion = 0
  /\ snapshots = <<>>
  /\ now = 0

CapCreateTask == CreateTaskOver(CapTasks, Titles, Prefs)

\* the clients' requests arrive while every model call is still awaited
NextCap ==
  \/ CapCreateTask

SpecCap == InitCap /\ [][NextCap]_vars

\* ------------------------------------------------ the choice of an agent
\* The dev server started with four agents, each with or without an API key,
\* and a bridge: tasks are
\* created with or without a preferred agent, calls return (which changes
\* the agent's scores) or are rate limited (which puts the agent in cooldown),
\* and the dispatch timer runs.
PickAgents == <<NewAgent("a1", "openai-compatible"), NewAgent("a2", "openai-compatible"),
                NewAgent("a3", "openai-compatible"), NewAgent("a4", "openai-compatible"),
                NewAgent("a5", "cursor-bridge")>>

PickPrefs == {"auto", "a2", "a5"}

\* a configured agent without an API key starts offline
InitPick ==
  /\ \E off \in SUBSET {1, 2, 3, 4} :
       agents = [i \in DOMAIN PickAgents |->
                   IF i \in off THEN [PickAgents[i] EXCEPT !.status = "offline"]
                   ELSE PickAgents[i]]
  /\ tasks = <<>>
  /\ taskCounter = 0
  /\ archivedTaskCount = 0
  /\ autoApproveAll = TRUE
  /\ performanceLog = [id \in {PickAgents[i].id : i \in DOMAIN PickAgents} |-> <<>>]
  /\ activity = <<>>
  /\ runs = <<>>
  /\ approvals = <<>>
  /\ written = {}
  /\ executed = {}
  /\ approveCmds = {}
  /\ taskHistory = <<>>
  /\ broadcastPending = FALSE
  /\ lastBroadcastTime = 0
  /\ broadcastTimer = NoTime
  /\ parsed = NoParse
  /\ stateVersion = 0
  /\ snapshots = <<>>
  /\ now = 0

PickCreateTask == CreateTaskOver(PickTasks, Titles, PickPrefs)

PickModelReturns == ModelReturnsOver({OutText}, PickTasks)

PickModelFails == ModelFailsOver({"429"})

NextPick ==
  \/ PickCreateTask
  \/ PickModelReturns
  \/ PickModelFails
  \/ DispatchTick
  \/ Tick

SpecPick == InitPick /\ [][NextPick]_vars

\* ------------------------------------------------ chains of subtasks
\* The dev server with tasks whose answers are plain text or carry a SUBTASK
\* block, so that children, grandchildren and tasks at the depth limit occur.
ChainOutputs == {OutText, OutSub}

\* a client creates a task, while fewer than ChainRoots tasks exist
ChainCreateTask == CreateTaskOver(ChainRoots, Titles, Prefs)

ChainModelReturns == ModelReturnsOver(ChainOutputs, ChainTasks)

NextChain ==
  \/ ChainCreateTask
  \/ AddAgentCmd
  \/ ChainModelReturns
  \/ DispatchTick

SpecChain == Init /\ [][NextChain]_vars

\* ---------------------------------------------------- the task history
\* The task history alone: pipelines reach their saveTaskToMemory call, one
\* task after the other, while time passes; the server is restarted, which
\* resets taskCounter and loads the history back from persistent.json.

\* executeTask reaches saveTaskToMemory(task, agent) for the next task
MemSaveTask ==
  /\ taskCounter < MemTasks
  /\ taskCounter' = taskCounter + 1
  /\ taskHistory' = saveTaskToMemory(taskHistory, taskCounter + 1, now)
  /\ UNCHANGED <<parsed, agents, tasks, archivedTaskCount, autoApproveAll, performanceLog, activity,
                 runs, approvals, written, executed, approveCmds, castVars, now>>

\* the server starts again after MemTasks tasks: let taskCounter = 0, loadMemory()
MemRestart ==
  /\ taskCounter = MemTasks
  /\ taskCounter' = 0
  /\ UNCHANGED <<parsed, agents, tasks, archivedTaskCount, autoApproveAll, performanceLog, activity,
                 runs, approvals, written, executed, approveCmds, taskHistory, castVars, now>>

\* time passes
MemTick ==
  /\ now < MemTicks * TickMs
  /\ now' = now + TickMs
  /\ UNCHANGED <<parsed, agents, tasks, taskCounter, archivedTaskCount, autoApproveAll, performanceLog,
                 activity, runs, approvals, written, executed, approveCmds, taskHistory, castVars>>

NextMem ==
  \/ MemSaveTask
  \/ MemRestart
  \/ MemTick

SpecMem == Init /\ [][NextMem]_vars

\* ====================================================================
\* The dev server over a long run: LongTasks tasks are created, a new one
\* when none is waiting, and answered in plain text, the tasks after the
\* first MAX_VISIBLE also with a subtask, so that more than MAX_VISIBLE tasks
\* finish and cleanupTasks archives some.
LongCreateTask ==
  /\ \A i \in DOMAIN tasks : tasks[i].status # "pending"
  /\ CreateTaskOver(LongTasks, {"plain"}, {"auto"})

LongModelReturns == ModelReturnsOver({OutText}, LongTasks)

LongSpawns ==
  /\ taskCounter > MAX_VISIBLE
  /\ ModelReturnsOver({OutSub}, LongTasks)

\* the first task created after the live list is full is rejected
LongReject ==
  /\ taskCounter > MAX_VISIBLE
  /\ RejectTaskOver({MAX_VISIBLE + 1})

NextLong ==
  \/ LongCreateTask
  \/ LongReject
  \/ LongModelReturns
  \/ LongSpawns
  \/ RechargeTick
  \/ DispatchTick

SpecLong == Init /\ [][NextLong]_vars

\* ====================================================================
\* The parsers of the dev server, on their own: a response that is the text
\* of one well-formed block is parsed.
ParseResponse ==
  /\ \E B \in WellFormedBlocks, sep \in {<<>>, <<"\n">>} :
       parsed' = [block |-> B, text |-> Render(B, sep), result |-> Parse(Render(B, sep))]
  /\ UNCHANGED <<agents, tasks, taskCounter, archivedTaskCount, autoApproveAll, performanceLog,
                 activity, runs, approvals, written, executed, approveCmds, taskHistory,
                 castVars, now>>

SpecParse == Init /\ [][ParseResponse]_vars

\* ====================================================================
\* The activity logs on their own: the dev server's activity array and the
\* activityLog of the extension's EventBus, each entry named by its number
\* in the order of publication.
NoLogs == [activity |-> <<>>, activityLog |-> <<>>]

Logs == IF "activityLog" \in DOMAIN parsed THEN parsed ELSE NoLogs

\* addActivity: activity.push(entry); if (activity.length > 100) slice(-100)
addActivity(act, entry) == LastN(Append(act, entry), ActivityCap)

\* EventBus.addToLog: push(entry); if (length > maxLogSize) slice(-maxLogSize)
addToLog(log, entry) == LastN(Append(log, entry), maxLogSize)

\* the number of the next entry of a log
NextEntry(log) == IF log = <<>> THEN 1 ELSE log[Len(log)] + 1

\* the dev server publishes an event
DevPublish ==
  /\ NextEntry(Logs.activity) <= LogEvents
  /\ parsed' = [Logs EXCEPT !.activity = addActivity(@, NextEntry(@))]
  /\ UNCHANGED <<agents, tasks, taskCounter, archivedTaskCount, autoApproveAll, performanceLog,
                 activity, runs, approvals, written, executed, approveCmds, taskHistory,
                 castVars, now>>

\* the extension's event bus emits an event
BusEmit ==
  /\ NextEntry(Logs.activityLog) <= LogEvents
  /\ parsed' = [Logs EXCEPT !.activityLog = addToLog(@, NextEntry(@))]
  /\ UNCHANGED <<agents, tasks, taskCounter, archivedTaskCount, autoApproveAll, performanceLog,
                 activity, runs, approvals, written, executed, approveCmds, taskHistory,
                 castVars, now>>

NextLog ==
  \/ DevPublish
  \/ BusEmit

SpecLog == Init /\ [][NextLog]_vars

\* ====================================================================
\* scoreOutput on its own: a response of any token count, with any of the
\* FILE markers in its text, up to ScoreFiles files and ScoreExecs commands
\* run or not run, for a task of any status.
ScoreTokens == {0, 1, 499, 500, 1999, 2000, 4999, 5000, 9999, 10000, 20000}

ScoreInputs ==
  [status : {"completed", "review", "failed"}, tokens : ScoreTokens,
   markers : SUBSET FileMarkers, nFiles : 0..ScoreFiles, execRan : BOOLEAN,
   execResults : UNION {[1..n -> BOOLEAN] : n \in 0..ScoreExecs}]

ScoreResponse ==
  /\ parsed = NoParse
  /\ \E in \in ScoreInputs, nBlocks \in 0..ScoreExecs :
       /\ in.execRan => Len(in.execResults) <= nBlocks
       /\ ~in.execRan => in.execResults = <<>>
       /\ parsed' = [input |-> in, nExecBlocks |-> nBlocks,
                     score |-> scoreOutput(in.status, in, in.nFiles, nBlocks,
                                           in.execRan, in.execResults)]
  /\ UNCHANGED <<agents, tasks, taskCounter, archivedTaskCount, autoApproveAll, performanceLog,
                 activity, runs, approvals, written, executed, approveCmds, taskHistory,
                 castVars, now>>

SpecScore == Init /\ [][ScoreResponse]_vars

\* ====================================================================
\* The performance log of the dev server, on its own: PerfRecords scores are
\* recorded for agent "a", one per millisecond. The first PerfFree scores and
\* those that fill the list and overflow it are any of three values, in one
\* category or two; the scores in between are all the same.

PerfInputs(n) ==
  IF n <= PerfFree
  THEN {0, FailScore("500"), 100} \X {<<"general">>, <<"general", "test">>}
  ELSE IF n >= PerfKeep THEN {0, FailScore("500"), 100} \X {<<"general">>}
  ELSE {<<FailScore("500"), <<"general">>>>}

\* recordPerformance("a", types, score, taskId) for the next task
PerfRecord ==
  /\ taskCounter < PerfRecords
  /\ now = taskCounter
  /\ \E in \in PerfInputs(taskCounter + 1) :
       performanceLog' = recordPerformance(performanceLog, "a", in[2], in[1], now)
  /\ taskCounter' = taskCounter + 1
  /\ taskHistory' = saveMemory(taskHistory)
  /\ UNCHANGED <<parsed, agents, tasks, archivedTaskCount, autoApproveAll, activity,
                 runs, approvals, written, executed, approveCmds, castVars, now>>

\* a millisecond passes after a score was recorded
PerfTick ==
  /\ now < taskCounter
  /\ now' = now + 1
  /\ UNCHANGED <<parsed, agents, tasks, taskCounter, archivedTaskCount, autoApproveAll, performanceLog,
                 activity, runs, approvals, written, executed, approveCmds, taskHistory, castVars>>

NextPerf ==
  \/ PerfRecord
  \/ PerfTick

SpecPerf == Init /\ [][NextPerf]_vars

\* ====================================================================
\* The throttled broadcaster of the dev server, on its own: the handlers'
\* calls of broadcastState() arrive at any time, CastClients clients connect,
\* and the clock moves in steps of CastStep ms.

Clients == 1..CastClients

\* the broadcaster's variables as one record
Caster == [pending |-> broadcastPending, last |-> lastBroadcastTime,
           timer |-> broadcastTimer, snaps |-> snapshots, version |-> stateVersion]

\* a state:full message as its receiver sees it: when it was sent, by what,
\* and the state getFullState() returned for it
Snapshot(t, via, v) == [at |-> t, via |-> via, version |-> v]

\* wss.clients with readyState 1: a client is connected once it got the
\* snapshot of its connection
Connected(snaps) == {c \in Clients : snaps[c] # <<>>}

\* broadcast(msg): every connected client is sent the message
broadcast(snaps, msg) ==
  [c \in Clients |-> IF c \in Connected(snaps) THEN Append(snaps[c], msg) ELSE snaps[c]]

\* doBroadcastState()
doBroadcastState(B, t) ==
  [B EXCEPT !.last = t, !.snaps = broadcast(@, Snapshot(t, "broadcast", B.version))]

\* scheduleBroadcast(), mutated: every call broadcasts at once
scheduleBroadcastUnthrottled(B, t) == doBroadcastState(B, t)

\* scheduleBroadcast(), mutated: a call in the quiet window sets no timer
scheduleBroadcastDropsQuiet(B, t) ==
  IF B.pending \/ t - B.last < BROADCAST_MIN_INTERVAL THEN B ELSE doBroadcastState(B, t)

\* scheduleBroadcast() at time t: nothing while a broadcast is pending; a
\* broadcast at once when the last one is 300 ms old; else one timer for the
\* rest of the 300 ms
scheduleBroadcast(B, t) ==
  IF B.pending THEN B
  ELSE LET elapsed == t - B.last
       IN IF elapsed >= BROADCAST_MIN_INTERVAL
          THEN doBroadcastState(B, t)
          ELSE [B EXCEPT !.pending = TRUE, !.timer = t + (BROADCAST_MIN_INTERVAL - elapsed)]

CommitCast(B) ==
  /\ broadcastPending' = B.pending
  /\ lastBroadcastTime' = B.last
  /\ broadcastTimer' = B.timer
  /\ snapshots' = B.snaps
  /\ stateVersion' = B.version

\* the server has started: Date.now() is far beyond lastBroadcastTime = 0
InitCast ==
  /\ agents = InitialAgents
  /\ tasks = <<>>
  /\ taskCounter = 0
  /\ archivedTaskCount = 0
  /\ autoApproveAll = TRUE
  /\ performanceLog = [id \in AgentIds |-> <<>>]
  /\ activity = <<>>
  /\ runs = <<>>
  /\ approvals = <<>>
  /\ written = {}
  /\ executed = {}
  /\ approveCmds = {}
  /\ taskHistory = <<>>
  /\ broadcastPending = FALSE
  /\ lastBroadcastTime = 0
  /\ broadcastTimer = NoTime
  /\ parsed = NoParse
  /\ stateVersion = 0
  /\ snapshots = [c \in Clients |-> <<>>]
  /\ now = 2 * BROADCAST_MIN_INTERVAL

\* wss.on('connection'): the new client is sent state:full directly
CastConnect ==
  \E c \in Clients :
    /\ snapshots[c] = <<>>
    /\ snapshots' = [snapshots EXCEPT ![c] = <<Snapshot(now, "connection", stateVersion)>>]
    /\ UNCHANGED <<parsed, agents, tasks, taskCounter, archivedTaskCount, autoApproveAll,
                   performanceLog, activity, runs, approvals, written, executed, approveCmds,
                   taskHistory, broadcastPending, lastBroadcastTime, broadcastTimer,
                   stateVersion, now>>

\* a handler changes the state and calls broadcastState()
CastEvent ==
  /\ stateVersion < CastEvents
  /\ CommitCast(scheduleBroadcast([Caster EXCEPT !.version = @ + 1], now))
  /\ UNCHANGED <<parsed, agents, tasks, taskCounter, archivedTaskCount, autoApproveAll,
                 performanceLog, activity, runs, approvals, written, executed, approveCmds,
                 taskHistory, now>>

\* the callback of scheduleBroadcast's setTimeout, no earlier than its delay
CastTimer ==
  /\ broadcastPending
  /\ now >= broadcastTimer
  /\ CommitCast(doBroadcastState([Caster EXCEPT !.pending = FALSE], now))
  /\ UNCHANGED <<parsed, agents, tasks, taskCounter, archivedTaskCount, autoApproveAll,
                 performanceLog, activity, runs, approvals, written, executed, approveCmds,
                 taskHistory, now>>

\* time passes, up to the end of the run or until a timer set is due
CastTick ==
  /\ \/ now < 2 * BROADCAST_MIN_INTERVAL + CastTicks * CastStep
     \/ broadcastPending /\ now < broadcastTimer
  /\ now' = now + CastStep
  /\ UNCHANGED <<parsed, agents, tasks, taskCounter, archivedTaskCount, autoApproveAll,
                 performanceLog, activity, runs, approvals, written, executed, approveCmds,
                 taskHistory, castVars>>

NextCast ==
  \/ CastConnect
  \/ CastEvent
  \/ CastTimer
  \/ CastTick

SpecCast == InitCast /\ [][NextCast]_vars

\* the event loop runs a timer's callback once it is due, and time passes
SpecCastFair == SpecCast /\ WF_vars(CastTimer) /\ WF_vars(CastTick)

\* ====================================================================
\* Properties of the dev server

StatusOf(tk, tid) == TaskOf(tk, tid).status

Working(ags) == {i \in DOMAIN ags : ags[i].status = "working"}

\* the active tasks assigned to agent id A
ActiveFor(A) == {i \in DOMAIN tasks : tasks[i].status = "active" /\ tasks[i].assignedAgentId = A}

\* C1: no double-booking: for every agent id, at most one task is active
\* with that id as its assignedAgentId.
C1_NoDoubleBooking ==
  \A i \in DOMAIN agents : Cardinality(ActiveFor(agents[i].id)) <= 1

\* the effects recorded for task tid: files written and commands run
EffectsOf(tid) == {e \in written \cup executed : e.task = tid}

\* the pipeline has finished for tid and left a file-bearing result
PipelineLeftFiles(tid) ==
  /\ HasTask(tasks, tid)
  /\ tid \notin DOMAIN runs
  /\ TaskOf(tasks, tid).result.success
  /\ Len(TaskOf(tasks, tid).result.fileContents) > 0

\* C2: risk gate: every file written and every command run for a high-risk
\* task was written or run by approveTask, after an approveTask command for
\* that task was received; the task's pipeline never writes or runs anything.
C2_RiskGate ==
  \A e \in written \cup executed :
    TaskOf(tasks, e.task).risk = "high" => e.via = "approve" /\ e.task \in approveCmds

\* a high-risk task whose pipeline finished with files, not yet approved:
\* nothing was written or run for it
C2_Witness ==
  \E tid \in 1..taskCounter :
    /\ PipelineLeftFiles(tid)
    /\ TaskOf(tasks, tid).risk = "high"
    /\ Len(TaskOf(tasks, tid).result.execBlocks) > 0
    /\ tid \notin approveCmds
    /\ EffectsOf(tid) = {}

\* the status changes the lifecycle allows
Transitions ==
  {<<"pending", "active">>, <<"pending", "cancelled">>, <<"active", "completed">>,
   <<"active", "review">>, <<"active", "failed">>, <<"review", "completed">>,
   <<"review", "cancelled">>}

\* C3: a task's status changes only along pending->active, pending->cancelled,
\* active->completed, active->review, active->failed, review->completed,
\* review->cancelled.
C3_OnlyListedTransitions ==
  [][\A tid \in 1..taskCounter :
       (HasTask(tasks, tid) /\ HasTask(tasks', tid)
        /\ StatusOf(tasks', tid) # StatusOf(tasks, tid))
       => <<StatusOf(tasks, tid), StatusOf(tasks', tid)>> \in Transitions]_vars

\* tid was rejected while in review and no approveTask command for it has
\* been received so far: it is cancelled, its pipeline left files for review,
\* and only a reject can have moved it out of review
RejectedInReview(tid) ==
  /\ PipelineLeftFiles(tid)
  /\ TaskOf(tasks, tid).risk = "high"
  /\ StatusOf(tasks, tid) = "cancelled"
  /\ tid \notin approveCmds

\* C4: approve after reject is a no-op: once a task in review was rejected,
\* no step takes it out of cancelled and no step makes approveTask take up
\* its files for writing.
C4_ApproveAfterRejectIsNoOp ==
  [][\A tid \in 1..taskCounter :
       RejectedInReview(tid)
       => /\ StatusOf(tasks', tid) = "cancelled"
          /\ \A k \in DOMAIN approvals' : approvals'[k].task # tid
          /\ {e \in written' \cup executed' : e.task = tid} = EffectsOf(tid)]_vars

\* C6: path confinement: every file written, by the pipeline or by
\* approveTask, lies under the workspace root.
C6_FilesUnderRoot == \A w \in written : UnderRoot(w.path)

\* C7: a command runs only in a directory strictly inside the workspace root.
C7_CwdStrictlyInsideRoot == \A e \in executed : StrictlyInsideRoot(e.cwd)

\* C8: concurrency cap: at most maxConcurrent (5) agents are working.
C8_ConcurrencyCap == Cardinality(Working(agents)) <= maxConcurrent

\* the run that ended in this step with a rate-limit error
RateLimited(tid) ==
  /\ tid \in DOMAIN runs
  /\ tid \notin DOMAIN runs'
  /\ HasTask(tasks', tid)
  /\ TaskOf(tasks', tid).result.output = "429"

\* C9: rate-limit backoff: a call failing with 429 leaves its agent in
\* cooldown with cooldownUntil = now + 60 s and its task failed; an agent in
\* cooldown is given no task and stays in cooldown until a recharge tick that
\* runs after cooldownUntil returns it to idle.
C9_RateLimitBackoff ==
  [][/\ \A tid \in DOMAIN runs :
          RateLimited(tid)
          => /\ agents'[runs[tid].agent].status = "cooldown"
             /\ agents'[runs[tid].agent].cooldownUntil = now + CooldownMs
             /\ StatusOf(tasks', tid) = "failed"
     /\ \A i \in DOMAIN agents :
          agents[i].status = "cooldown"
          => /\ \A tid \in DOMAIN runs' \ DOMAIN runs : runs'[tid].agent # i
             /\ agents'[i].currentTaskId = NoTask
             /\ \/ agents'[i].status = "cooldown" /\ agents'[i].cooldownUntil = agents[i].cooldownUntil
                \/ /\ agents'[i].status = "idle"
                   /\ agents'[i].cooldownUntil = NoTime
                   /\ now > agents[i].cooldownUntil
                   /\ tasks' = tasks]_vars

\* an agent is in cooldown after a 429 while a task created since then waits:
\* the dispatch that createTask ran passed the agent over
C9_Witness ==
  \E i \in DOMAIN agents, p \in DOMAIN tasks, f \in DOMAIN tasks :
    /\ agents[i].status = "cooldown"
    /\ agents[i].cooldownUntil > now
    /\ tasks[f].status = "failed"
    /\ tasks[f].result.output = "429"
    /\ tasks[f].assignedAgentId = agents[i].id
    /\ tasks[p].status = "pending"
    /\ tasks[p].id > tasks[f].id

\* ====================================================================
\* The VS Code extension: Orchestrator, TaskManager, AgentRegistry.
\* It keeps its state in the same variables: agents is the registry (a Map,
\* in insertion order, one entry per id), tasks the TaskManager's Map, runs
\* the dispatchTask calls awaiting router.execute, written the files that
\* applyChanges wrote, activity the events published on the event bus.

XTracked == {"task:approved", "task:rejected", "task:review-needed"}

\* eventBus.emit, restricted to the event types the properties read
XEmit(act, type, agentId, tid) ==
  IF type \in XTracked THEN act \cup {Event(type, agentId, tid)} ELSE act

\* AgentRegistry.registerAgent
XNewAgent(id, role) ==
  [id |-> id, role |-> role, status |-> "idle", energy |-> StartEnergy,
   maxEnergy |-> StartEnergy, level |-> 1, currentTaskId |-> NoTask,
   totalTokensUsed |-> 0, errorCount |-> 0, cooldownUntil |-> NoTime]

XInitialAgents == <<XNewAgent("a", "general"), XNewAgent("b", "general")>>

XRisks == {"low", "high"}

\* the agentOS.autoApplyLowRisk setting (its default)
autoApplyLowRisk == TRUE

XOutputs == {OutText, OutFile, OutSub, OutLong}

XErrorKinds == {"429", "500"}

\* TaskManager.createTask, called by Orchestrator.createTask with options.risk
XNewTask(id, title, risk, createdBy, parent, depth) ==
  [id |-> id, title |-> title, status |-> "pending", risk |-> risk, priority |-> "medium",
   assignedAgentId |-> Null, createdBy |-> createdBy, parentTaskId |-> parent,
   depth |-> depth, started |-> NoTime, completed |-> NoTime,
   result |-> [has |-> FALSE, success |-> FALSE, fileChanges |-> <<>>, tokensUsed |-> 0]]

\* Orchestrator.autoDetectRisk for a task without file paths
autoDetectRisk(title) == IF title = "test" THEN "low" ELSE "high"

\* TaskManager.getPendingTasks: (priorityOrder[p] || 2)
priorityOrder(p) ==
  LET o == CASE p = "critical" -> 0 [] p = "high" -> 1 [] p = "medium" -> 2 [] OTHER -> 3
  IN IF o = 0 THEN 2 ELSE o

RECURSIVE InsertByPriority(_, _)
\* a stable sort by ascending priorityOrder: insert t after its equals
InsertByPriority(sorted, t) ==
  IF sorted = <<>> THEN <<t>>
  ELSE IF priorityOrder(t.priority) < priorityOrder(Head(sorted).priority)
       THEN <<t>> \o sorted
       ELSE <<Head(sorted)>> \o InsertByPriority(Tail(sorted), t)

RECURSIVE SortByPriority(_)
SortByPriority(ts) ==
  IF ts = <<>> THEN <<>>
  ELSE InsertByPriority(SortByPriority(SubSeq(ts, 1, Len(ts) - 1)), ts[Len(ts)])

\* TaskManager.getPendingTasks
getPendingTasks(tk) == SortByPriority(SelectSeq(tk, LAMBDA t : t.status = "pending"))

\* Orchestrator.inferRole
inferRole(title) == IF title = "test" THEN "testing" ELSE "general"

\* AgentRegistry.getAvailableAgents: idle and energy > 5
getAvailableAgents(ags) ==
  {i \in DOMAIN ags : ags[i].status = "idle" /\ ags[i].energy > XMinEnergy}

\* getBestAgent's score, times 100: role 50 + energy / maxEnergy * 30 + min(level * 2, 20)
XScore(a, role) ==
  (IF a.role = role THEN 5000 ELSE 0) + (a.energy * 3000) \div a.maxEnergy
    + Min(a.level * 2, 20) * 100

\* AgentRegistry.getBestAgent: the first of the available agents sorted by
\* descending score (the sort is stable); {} when none is available
getBestAgent(ags, role) ==
  LET av == getAvailableAgents(ags)
      best == {i \in av : \A j \in av : XScore(ags[j], role) <= XScore(ags[i], role)}
  IN IF av = {} THEN {} ELSE {CHOOSE i \in best : \A j \in best : i <= j}

XWorld == [agents |-> agents, tasks |-> tasks, runs |-> runs, activity |-> activity,
           taskCounter |-> taskCounter]

XCommit(W) ==
  /\ agents' = W.agents
  /\ tasks' = W.tasks
  /\ runs' = W.runs
  /\ activity' = W.activity
  /\ taskCounter' = W.taskCounter

InitExt ==
  /\ agents = XInitialAgents
  /\ tasks = <<>>
  /\ taskCounter = 0
  /\ archivedTaskCount = 0
  /\ autoApproveAll = TRUE
  /\ performanceLog = <<>>
  /\ activity = {}
  /\ runs = <<>>
  /\ approvals = <<>>
  /\ written = {}
  /\ executed = {}
  /\ approveCmds = {}
  /\ taskHistory = <<>>
  /\ broadcastPending = FALSE
  /\ lastBroadcastTime = 0
  /\ broadcastTimer = NoTime
  /\ parsed = NoParse
  /\ stateVersion = 0
  /\ snapshots = <<>>
  /\ now = 0

\* Orchestrator.createTask with TaskManager.createTask
XcreateTask(W, title, risk, createdBy, parent, depth) ==
  LET id == W.taskCounter + 1 IN
  [W EXCEPT !.taskCounter = id,
            !.tasks = Append(W.tasks, XNewTask(id, title, risk, createdBy, parent, depth)),
            !.activity = XEmit(@, "task:created", Null, id)]

\* a client creates a task
XCreateTask ==
  /\ taskCounter < XMaxTasks
  /\ \E title \in Titles, risk \in XRisks :
       XCommit(XcreateTask(XWorld, title, risk, "user", NoTask, 0))
  /\ UNCHANGED <<parsed, taskHistory, castVars, archivedTaskCount, autoApproveAll, performanceLog, approvals, written,
                 executed, approveCmds, now>>

\* Orchestrator.dispatchTask up to its await of router.execute, with
\* AgentRegistry.updateAgentStatus and TaskManager.assignTask
dispatchTask(W, tid, a, ts) ==
  [W EXCEPT
     !.agents = [W.agents EXCEPT ![a].status = "working", ![a].currentTaskId = tid],
     !.tasks = UpdTask(W.tasks, tid,
                 LAMBDA x : [x EXCEPT !.status = "active",
                                      !.assignedAgentId = W.agents[a].id,
                                      !.started = ts]),
     !.runs = W.runs @@ (tid :> [agent |-> a]),
     !.activity = XEmit(@, "agent:working", W.agents[a].id, tid)]

RECURSIVE XDispatchEach(_, _, _)
\* processQueue's loop over tasksToProcess
XDispatchEach(ts, W, t0) ==
  IF ts = <<>> THEN W
  ELSE LET pick == getBestAgent(W.agents, inferRole(Head(ts).title))
       IN IF pick = {} THEN XDispatchEach(Tail(ts), W, t0)
          ELSE XDispatchEach(Tail(ts),
                             dispatchTask(W, Head(ts).id, CHOOSE a \in pick : TRUE, t0), t0)

\* Orchestrator.processQueue, run every 2 s
processQueue(W, t0) ==
  LET pendingTasks == getPendingTasks(W.tasks)
      workingAgents == Cardinality(Working(W.agents))
      slotsAvailable == maxConcurrent - workingAgents
  IN IF workingAgents >= maxConcurrent \/ pendingTasks = <<>> THEN W
     ELSE XDispatchEach(SubSeq(pendingTasks, 1, Min(slotsAvailable, Len(pendingTasks))), W, t0)

XProcessQueue ==
  /\ XCommit(processQueue(XWorld, now))
  /\ UNCHANGED <<parsed, taskHistory, castVars, archivedTaskCount, autoApproveAll, performanceLog, approvals, written,
                 executed, approveCmds, now>>

\* dispatchTask's finally block
XFinally(W, tid, a) ==
  [W EXCEPT
     !.agents = [W.agents EXCEPT ![a].currentTaskId = NoTask,
                                 ![a].status = IF @ = "working" THEN "idle" ELSE @],
     !.runs = Without(W.runs, tid)]

RECURSIVE XSpawn(_, _, _, _, _)
\* handleResult's loop over result.subtasks
XSpawn(W, subs, agentId, parent, depth) ==
  IF subs = <<>> THEN W
  ELSE XSpawn(XcreateTask(W, Head(subs).title, autoDetectRisk(Head(subs).title),
                          agentId, parent, depth + 1),
              Tail(subs), agentId, parent, depth)

\* Orchestrator.applyChanges: the paths it writes, path.join(workspaceRoot, filePath)
applyChanges(files, tid, via) ==
  {[task |-> tid, via |-> via, n |-> 1, path |-> PathJoin(PROJECT_ROOT, files[i])] :
     i \in DOMAIN files}

\* the result that completeTask and moveToReview store
XResult(out) == [has |-> TRUE, success |-> TRUE, fileChanges |-> out.files,
                 tokensUsed |-> out.tokens]

\* router.execute returns: Orchestrator.handleResult and dispatchTask's
\* finally block. (The gamification engine keeps its own per-agent state,
\* which nothing here reads.)
XExecuteReturns ==
  \E tid \in DOMAIN runs, out \in XOutputs :
    LET a == runs[tid].agent
        agentId == agents[a].id
        task == TaskOf(tasks, tid)
        drained == [XWorld EXCEPT
                      !.agents = [agents EXCEPT
                                    ![a].energy = Max(0, @ - CeilDiv(out.tokens, 1000)),
                                    ![a].totalTokensUsed = @ + out.tokens]]
        spawned == IF Len(out.subtasks) > 0 /\ task.depth < MaxTaskDepth
                   THEN XSpawn(drained, out.subtasks, agentId, tid, task.depth)
                   ELSE drained
        autoApply == Len(out.files) > 0 /\ task.risk = "low" /\ autoApplyLowRisk
        toReview == Len(out.files) > 0 /\ ~(task.risk = "low" /\ autoApplyLowRisk)
        reviewed == IF toReview
                    THEN [spawned EXCEPT
                            !.tasks = UpdTask(spawned.tasks, tid,
                                        LAMBDA x : [x EXCEPT !.status = "review",
                                                             !.result = XResult(out)]),
                            !.activity = XEmit(@, "task:review-needed", agentId, tid)]
                    ELSE spawned
        completed == [reviewed EXCEPT
                        !.tasks = UpdTask(reviewed.tasks, tid,
                                    LAMBDA x : [x EXCEPT !.status = "completed",
                                                         !.completed = now,
                                                         !.result = XResult(out)]),
                        !.activity = XEmit(@, "agent:completed", agentId, tid)]
    IN /\ taskCounter + Len(out.subtasks) <= XMaxTasks + XMaxSpawned
       /\ XCommit(XFinally(completed, tid, a))
       /\ written' = IF autoApply THEN written \cup applyChanges(out.files, tid, "auto")
                     ELSE written
       /\ UNCHANGED <<parsed, taskHistory, castVars, archivedTaskCount, autoApproveAll, performanceLog, approvals,
                      executed, approveCmds, now>>

\* router.execute throws: dispatchTask's catch and finally blocks, with
\* AgentRegistry.setCooldown, TaskManager.unassignTask and TaskManager.failTask
XExecuteFailsOver(kinds) ==
  \E tid \in DOMAIN runs, kind \in kinds :
    LET a == runs[tid].agent
        agentId == agents[a].id
        limited == [XWorld EXCEPT
                      !.agents = [agents EXCEPT
                                    ![a].cooldownUntil = now + XDefaultRetryAfter * 1000,
                                    ![a].status = "cooldown"],
                      !.tasks = UpdTask(tasks, tid,
                                  LAMBDA x : [x EXCEPT !.status = "pending",
                                                       !.assignedAgentId = Null,
                                                       !.started = NoTime]),
                      !.activity = XEmit(@, "agent:cooldown", agentId, tid)]
        failed == [XWorld EXCEPT
                     !.agents = [agents EXCEPT ![a].status = "error", ![a].errorCount = @ + 1],
                     !.tasks = UpdTask(tasks, tid,
                                 LAMBDA x : [x EXCEPT
                                               !.status = "failed", !.completed = now,
                                               !.result = [has |-> TRUE, success |-> FALSE,
                                                           fileChanges |-> <<>>,
                                                           tokensUsed |-> 0]]),
                     !.activity = XEmit(@, "agent:error", agentId, tid)]
    IN /\ XCommit(XFinally(IF kind = "429" THEN limited ELSE failed, tid, a))
       /\ UNCHANGED <<parsed, taskHistory, castVars, archivedTaskCount, autoApproveAll, performanceLog, approvals, written,
                      executed, approveCmds, now>>

XExecuteFails == XExecuteFailsOver(XErrorKinds)

\* Orchestrator.approveTask with TaskManager.updateTaskStatus
XApproveTask ==
  \E tid \in 1..taskCounter :
    LET task == TaskOf(tasks, tid) IN
    /\ approveCmds' = approveCmds \cup {tid}
    /\ IF ~task.result.has
       THEN UNCHANGED <<parsed, tasks, activity, written>>
       ELSE /\ written' = written \cup applyChanges(task.result.fileChanges, tid, "approve")
            /\ tasks' = UpdTask(tasks, tid,
                          LAMBDA x : [x EXCEPT !.status = "completed", !.completed = now])
            /\ activity' = XEmit(activity, "task:approved", Null, tid)
    /\ UNCHANGED <<parsed, taskHistory, castVars, agents, taskCounter, archivedTaskCount, autoApproveAll, performanceLog,
                   runs, approvals, executed, now>>

\* Orchestrator.rejectTask with TaskManager.updateTaskStatus
XRejectTask ==
  \E tid \in 1..taskCounter :
    /\ tasks' = UpdTask(tasks, tid,
                  LAMBDA x : [x EXCEPT !.status = "cancelled", !.completed = now])
    /\ activity' = XEmit(activity, "task:rejected", Null, tid)
    /\ UNCHANGED <<parsed, taskHistory, castVars, agents, taskCounter, archivedTaskCount, autoApproveAll, performanceLog,
                   runs, approvals, written, executed, approveCmds, now>>

\* AgentRegistry.rechargeAll, for one agent: rate = energyRechargeRate || 1
XRecharged(a, ts) ==
  LET e == [a EXCEPT !.energy = Min(a.maxEnergy, a.energy + 1)] IN
  IF e.cooldownUntil # NoTime /\ ts > e.cooldownUntil
  THEN [e EXCEPT !.cooldownUntil = NoTime, !.status = IF @ = "cooldown" THEN "idle" ELSE @]
  ELSE e

\* AgentRegistry.rechargeAll, run every 60 s
XRechargeAll ==
  /\ agents' = [i \in DOMAIN agents |-> XRecharged(agents[i], now)]
  /\ UNCHANGED <<parsed, taskHistory, castVars, tasks, taskCounter, archivedTaskCount, autoApproveAll, performanceLog, activity,
                 runs, approvals, written, executed, approveCmds, now>>

\* the command agentOS.assignAgent: the user picks a pending task and an
\* available agent (both pick lists answered at once), TaskManager.assignTask
XAssignAgent ==
  /\ getPendingTasks(tasks) # <<>>
  /\ getAvailableAgents(agents) # {}
  /\ \E k \in DOMAIN getPendingTasks(tasks), a \in getAvailableAgents(agents) :
       tasks' = UpdTask(tasks, getPendingTasks(tasks)[k].id,
                  LAMBDA x : [x EXCEPT !.status = "active",
                                       !.assignedAgentId = agents[a].id,
                                       !.started = now])
  /\ UNCHANGED <<parsed, taskHistory, castVars, agents, taskCounter, archivedTaskCount, autoApproveAll,
                 performanceLog, activity, runs, approvals, written, executed, approveCmds, now>>

NextExt ==
  \/ XCreateTask
  \/ XAssignAgent
  \/ XProcessQueue
  \/ XExecuteReturns
  \/ XExecuteFails
  \/ XApproveTask
  \/ XRejectTask
  \/ XRechargeAll
  \/ Tick

SpecExt == InitExt /\ [][NextExt]_vars

\* The extension without rate limits and rejections: tasks are created,
\* assigned by hand or by the queue timer, answered or failed, approved.
XHardFails == XExecuteFailsOver({"500"})

NextAssign ==
  \/ XCreateTask
  \/ XAssignAgent
  \/ XProcessQueue
  \/ XExecuteReturns
  \/ XHardFails
  \/ XApproveTask
  \/ XRechargeAll
  \/ Tick

\* every call of router.execute terminates, it returns or it throws, and
\* the queue timer keeps running
SpecAssign ==
  /\ InitExt
  /\ [][NextAssign]_vars
  /\ WF_vars(XExecuteReturns \/ XHardFails)
  /\ WF_vars(XProcessQueue)

\* --------------------------------------------------------------------
\* The extension's pending queue: clients create tasks of any priority and
\* processQueue dispatches them to the two agents.
Priorities == {"critical", "high", "medium", "low"}

\* Orchestrator.createTask with options.priority
XcreateTaskWith(W, title, risk, priority) ==
  LET V == XcreateTask(W, title, risk, "user", NoTask, 0)
  IN [V EXCEPT !.tasks[Len(V.tasks)].priority = priority]

\* a client creates a task with a priority
QCreateTask ==
  /\ taskCounter < QueueTasks
  /\ \E priority \in Priorities : XCommit(XcreateTaskWith(XWorld, "plain", "low", priority))
  /\ UNCHANGED <<parsed, taskHistory, castVars, archivedTaskCount, autoApproveAll, performanceLog, approvals, written,
                 executed, approveCmds, now>>

NextQueue ==
  \/ QCreateTask
  \/ XProcessQueue

SpecQueue == InitExt /\ [][NextQueue]_vars

\* --------------------------------------------------------------------
\* Properties of the extension

XHasEvent(type, tid) == \E e \in activity : e.type = type /\ e.task = tid

\* handleResult queued tid for review and no approve or reject command for
\* it has been received
XAwaitingDecision(tid) ==
  /\ HasTask(tasks, tid)
  /\ TaskOf(tasks, tid).risk = "high"
  /\ tid \notin DOMAIN runs
  /\ XHasEvent("task:review-needed", tid)
  /\ tid \notin approveCmds
  /\ ~XHasEvent("task:rejected", tid)

\* C5: once the pipeline has finished for a high-risk task whose output has a
\* file block, the task is in review, with none of its files written, for as
\* long as no approveTask or rejectTask command for it has arrived; an
\* approved task is completed with task:approved published.
C5_ReviewUntilDecision ==
  /\ \A tid \in 1..taskCounter :
       XAwaitingDecision(tid)
       => StatusOf(tasks, tid) = "review" /\ EffectsOf(tid) = {}
  /\ \A e \in written :
       e.via = "approve" => XHasEvent("task:approved", e.task)

\* C10: no automatic retry: a task that is active never returns to pending.
C10_NoAutomaticRetry ==
  [][\A tid \in 1..taskCounter :
       StatusOf(tasks, tid) = "active" => StatusOf(tasks', tid) # "pending"]_vars

\* the dispatchTask call for tid ended in this step with the task failed
XFailedNow(tid) ==
  /\ tid \in DOMAIN runs
  /\ tid \notin DOMAIN runs'
  /\ StatusOf(tasks', tid) = "failed"

\* C11: when a task's execution fails with an error that is not a rate
\* limit, the task becomes failed and its agent returns to idle, so that the
\* agent is among the available agents of the next dispatch.
C11_FailureReturnsAgentToIdle ==
  [][\A tid \in DOMAIN runs :
       XFailedNow(tid) => agents'[runs[tid].agent].status = "idle"]_vars

\* the score that the step recorded for agent id A: the newest entry of the
\* agent's performance log for the task type "general"
LastScore(log, A) ==
  LET sc == TypeEntry(log[A], "general").scores IN sc[Len(sc)].score

\* a transport/API problem: any HTTP 4xx or 5xx status, a timeout
IsTransport(kind) == kind \in {"429", "500", "404", "timeout"}

\* the pipeline of tid threw in this step
Threw(tid) ==
  /\ tid \in DOMAIN runs
  /\ tid \notin DOMAIN runs'
  /\ HasTask(tasks', tid)
  /\ ~TaskOf(tasks', tid).result.success
  /\ StatusOf(tasks', tid) = "failed"

\* C12: failure scoring: the score recorded for a task whose pipeline threw
\* is 25 when the error is a transport/API problem (an HTTP 4xx or 5xx
\* status, the 429 rate limit included, or a timeout) and 0 otherwise.
C12_FailureScore ==
  [][\A tid \in DOMAIN runs :
       Threw(tid)
       => LastScore(performanceLog', agents[runs[tid].agent].id)
            = (IF IsTransport(TaskOf(tasks', tid).result.output) THEN 25 ELSE 0)]_vars

\* the tasks whose parent is tid
ChildrenOf(tk, tid) == {i \in DOMAIN tk : tk[i].parentTaskId = tid}

\* the pipeline of tid ended in this step on its success path with an answer
\* that has SUBTASK blocks
ReturnedSubtasks(tid) ==
  /\ tid \in DOMAIN runs
  /\ tid \notin DOMAIN runs'
  /\ TaskOf(tasks', tid).result.success
  /\ Len(TaskOf(tasks', tid).result.rawOutput.subtasks) > 0

\* C13: depth bound: every task has depth <= 3, and a task at depth 3 whose
\* answer has SUBTASK blocks creates no task and is itself completed.
C13_DepthBound ==
  [][/\ \A i \in DOMAIN tasks' : tasks'[i].depth <= MaxTaskDepth
     /\ \A tid \in DOMAIN runs :
          (ReturnedSubtasks(tid) /\ TaskOf(tasks, tid).depth = MaxTaskDepth)
          => /\ taskCounter' = taskCounter
             /\ Len(tasks') = Len(tasks)
             /\ StatusOf(tasks', tid) = "completed"]_vars

\* a task at depth 3 answered with a SUBTASK block and is completed without
\* a child
C13_Witness ==
  \E i \in DOMAIN tasks :
    /\ tasks[i].depth = MaxTaskDepth
    /\ tasks[i].status = "completed"
    /\ Len(tasks[i].result.rawOutput.subtasks) > 0
    /\ ChildrenOf(tasks, tasks[i].id) = {}
    /\ taskCounter < ChainTasks

\* the pipeline of tid ended in this step with SUBTASK blocks in its answer,
\* the task being above the depth limit
Spawning(tid) == ReturnedSubtasks(tid) /\ TaskOf(tasks, tid).depth < MaxTaskDepth

\* the step is a dispatch tick that started a task: runs gains entries and
\* loses none, and no task is created
DispatchTicked ==
  /\ taskCounter' = taskCounter
  /\ DOMAIN runs \subseteq DOMAIN runs'
  /\ DOMAIN runs' # DOMAIN runs

\* the task of id taskCounter + 1 is in tasks' the child that tid spawns
SpawnedChild(tid, statuses) ==
  /\ HasTask(tasks', taskCounter + 1)
  /\ LET c == TaskOf(tasks', taskCounter + 1) IN
       /\ c.depth = TaskOf(tasks, tid).depth + 1
       /\ c.parentTaskId = tid
       /\ c.createdBy = [kind |-> "agent", id |-> agents[runs[tid].agent].id]
       /\ c.status \in statuses

\* the pending tasks that have a parent
PendingChildren(tk) == {i \in DOMAIN tk : tk[i].status = "pending" /\ tk[i].parentTaskId # NoTask}

\* C14 as stated: a parent at depth d < 3 that returns a SUBTASK block leaves
\* a new task with depth d + 1, parentTaskId the parent's id, createdBy the
\* parent's agent and status pending, and the next dispatch tick dispatches it.
C14_SpawnedPendingThenDispatched ==
  [][/\ \A tid \in DOMAIN runs : Spawning(tid) => SpawnedChild(tid, {"pending"})
     /\ DispatchTicked
        => \A i \in PendingChildren(tasks) : tasks'[i].status = "active"]_vars

\* C14 as amended: the child has depth d + 1, the parent's id and the
\* parent's agent; it is pending, or already active on another agent when the
\* dispatch that createTask runs found one; a dispatch serves the pending tasks
\* oldest first and leaves a task pending only when no callable agent is left.
C14_SpawnedThenDispatchedInOrder ==
  [][/\ \A tid \in DOMAIN runs :
          Spawning(tid)
          => /\ SpawnedChild(tid, {"pending", "active"})
             /\ (taskCounter + 1) \in DOMAIN runs'
                => runs'[taskCounter + 1].agent # runs[tid].agent
     /\ DispatchTicked
        => /\ \A i \in DOMAIN tasks :
                (tasks[i].status = "pending" /\ tasks'[i].status = "pending")
                => /\ getCallableAgents(agents') = {}
                   /\ \A j \in DOMAIN tasks :
                        (tasks[j].status = "pending" /\ tasks'[j].status = "active") => j < i]_vars

\* a child, one level below its parent, runs on the agent that ran its parent:
\* it waited for that agent and a later dispatch started it
C14_Witness ==
  \E i \in DOMAIN tasks :
    /\ tasks[i].parentTaskId # NoTask
    /\ tasks[i].status = "active"
    /\ tasks[i].id \in DOMAIN runs
    /\ LET parent == TaskOf(tasks, tasks[i].parentTaskId) IN
         /\ tasks[i].depth = parent.depth + 1
         /\ tasks[i].createdBy = [kind |-> "agent", id |-> parent.assignedAgentId]
         /\ parent.status = "completed"
         /\ Len(agents) = 1

\* C15: agent invariant: for every agent, currentTaskId is non-null if and
\* only if its status is working.
C15_WorkingIffHasTask ==
  \A i \in DOMAIN agents :
    (agents[i].currentTaskId # NoTask) <=> (agents[i].status = "working")

\* an agent is in the middle of a pipeline, running the commands of its task,
\* and another step has cancelled that task meanwhile
C15_Witness ==
  \E tid \in DOMAIN runs :
    /\ runs[tid].pc = "exec"
    /\ agents[runs[tid].agent].status = "working"
    /\ agents[runs[tid].agent].currentTaskId = tid
    /\ StatusOf(tasks, tid) = "cancelled"

TerminalStatuses == {"completed", "failed", "cancelled", "review"}

\* C16: task invariant: a pending task has no assigned agent, an active task
\* has an assigned agent and a start time, and a task that is completed,
\* failed, cancelled or in review has a completion time or a result.
C16_TaskInvariant ==
  \A i \in DOMAIN tasks :
    LET t == tasks[i] IN
    /\ t.status = "pending" => t.assignedAgentId = Null
    /\ t.status = "active" => t.assignedAgentId # Null /\ t.started # NoTime
    /\ t.status \in TerminalStatuses => t.completed # NoTime \/ t.result.has

\* a task in review: it has a result and no completion time
C16_Witness ==
  \E i \in DOMAIN tasks :
    /\ tasks[i].status = "review"
    /\ tasks[i].completed = NoTime
    /\ tasks[i].result.has
    /\ tasks[i].assignedAgentId # Null

LifecycleRank(type) ==
  CASE type = "agent:working" -> 0
    [] type \in {"file:auto-applied", "exec:starting", "exec:running", "exec:done",
                 "exec:error", "exec:blocked", "task:review-needed"} -> 1
    [] type = "rl:scored" -> 2
    [] type \in {"agent:completed", "agent:error"} -> 3

\* C18: the events of a single task are published in lifecycle order:
\* agent:working first, then the file and exec events, then rl:scored, then
\* agent:completed (or agent:error); rl:scored never follows agent:completed.
C18_LifecycleOrder ==
  \A tid \in DOMAIN activity :
    \A i, j \in DOMAIN activity[tid] :
      i < j => LifecycleRank(activity[tid][i]) <= LifecycleRank(activity[tid][j])

HistoryIds(hist) == {hist[i].id : i \in DOMAIN hist}

\* the timestamps of the entries a step takes out of the history: those of the
\* entries that were in it and, when the step saves task taskCounter' (as
\* every saving step of SpecMem does), that of the entry just written
EvictedStamps ==
  {taskHistory[i].timestamp : i \in {k \in DOMAIN taskHistory :
                                       taskHistory[k].id \notin HistoryIds(taskHistory')}}
  \cup (IF taskCounter' = taskCounter + 1 /\ taskCounter' \notin HistoryIds(taskHistory')
        THEN {now} ELSE {})

\* C20: history cap: the task history never has more than 50 entries; an
\* entry is evicted only when the history is full, and every entry evicted is
\* at least as old, by timestamp, as every entry retained.
C20_HistoryCap ==
  /\ [](Len(taskHistory) <= HistoryCap)
  /\ [][\A ts \in EvictedStamps :
          /\ Len(taskHistory) = HistoryCap
          /\ Len(taskHistory') = HistoryCap
          /\ \A j \in DOMAIN taskHistory' : ts <= taskHistory'[j].timestamp]_vars

\* more than 50 tasks were saved, at different times: the history is full,
\* the entry of a task saved earlier is gone and entries of both times are kept
C20_Witness ==
  /\ Len(taskHistory) = HistoryCap
  /\ taskCounter > HistoryCap
  /\ \E id \in 1..taskCounter : id \notin HistoryIds(taskHistory)
  /\ \E i, j \in DOMAIN taskHistory : taskHistory[i].timestamp < taskHistory[j].timestamp

\* the snapshots client c received, in order
Received(c) == snapshots[c]

\* the broadcast snapshots among them
Broadcasts(c) == SelectSeq(snapshots[c], LAMBDA m : m.via = "broadcast")

\* consecutive messages of a sequence are at least 300 ms apart
Spaced(msgs) ==
  \A i \in 1..(Len(msgs) - 1) : msgs[i + 1].at - msgs[i].at >= BROADCAST_MIN_INTERVAL

\* no three messages of a sequence lie in one window of 300 ms
AtMostTwoPerWindow(msgs) ==
  \A i \in 1..(Len(msgs) - 2) : msgs[i + 2].at - msgs[i].at > BROADCAST_MIN_INTERVAL

\* C19 as stated: broadcast throttle: a subscriber is never delivered two
\* state snapshots less than 300 ms apart, and so never more than 2 in a
\* window of 300 ms.
C19_OneSnapshotPer300 ==
  \A c \in Clients : Spaced(Received(c)) /\ AtMostTwoPerWindow(Received(c))

\* C19, amended: broadcast throttle: the snapshots broadcast after events
\* reach a subscriber at least 300 ms apart, so at most 2 of them in a window
\* of 300 ms; besides these a subscriber gets one unthrottled snapshot, its
\* first, when it connects.
C19_BroadcastsThrottled ==
  \A c \in Clients :
    /\ Spaced(Broadcasts(c))
    /\ AtMostTwoPerWindow(Broadcasts(c))
    /\ \A i \in DOMAIN Received(c) : Received(c)[i].via = "connection" <=> i = 1

\* a subscriber connected, an event was broadcast in the same millisecond,
\* and events in the quiet window were coalesced into one trailing broadcast,
\* which the timer made 300 ms later
C19_Witness ==
  \E c \in Clients :
    /\ Len(Received(c)) >= 3
    /\ Received(c)[1].via = "connection"
    /\ Received(c)[2].at = Received(c)[1].at
    /\ Received(c)[3].at = Received(c)[2].at + BROADCAST_MIN_INTERVAL
    /\ ~broadcastPending
    /\ broadcastTimer = Received(c)[3].at

\* the scores retained for agent id in category type
ScoresOf(log, id, type) ==
  IF HasType(log[id], type) THEN TypeEntry(log[id], type).scores ELSE <<>>

\* a is Math.round(total / n)
IsRounded(a, total, n) == 2 * a * n <= 2 * total + n /\ 2 * total + n < 2 * (a + 1) * n

\* C21: performance bound: every (agent, category) list has at most 20
\* scores and avg = round(mean of the retained scores); a recording step
\* appends its score and drops the oldest score once 20 are held, so that the
\* list is the 20 most recent: of the scores of SpecPerf, one per task and
\* millisecond in category general, the last min(20, taskCounter).
C21_PerformanceBound ==
  /\ [](LET sc == ScoresOf(performanceLog, "a", "general")
        IN /\ Len(sc) = Min(PerfKeep, taskCounter)
           /\ \A k \in DOMAIN sc : sc[k].timestamp = taskCounter - Len(sc) + k - 1)
  /\ [](\A id \in AgentIds : \A i \in DOMAIN performanceLog[id] :
          LET e == performanceLog[id][i]
          IN /\ Len(e.scores) <= PerfKeep
             /\ Len(e.scores) > 0
             /\ e.count = Len(e.scores)
             /\ IsRounded(e.avg, SumSeq([k \in DOMAIN e.scores |-> e.scores[k].score]),
                          Len(e.scores)))
  /\ [][\A id \in AgentIds : \A type \in {"general", "test"} :
          LET old == ScoresOf(performanceLog, id, type)
              new == ScoresOf(performanceLog', id, type)
          IN new # old =>
               /\ new[Len(new)].timestamp = now
               /\ SubSeq(new, 1, Len(new) - 1) =
                    (IF Len(old) < PerfKeep THEN old ELSE Tail(old))]_vars

\* more than 20 scores were recorded in one category: 20 are retained, the
\* first one recorded is gone, and the mean is not a whole number
C21_Witness ==
  LET sc == ScoresOf(performanceLog, "a", "general")
  IN /\ taskCounter > PerfKeep
     /\ Len(sc) = PerfKeep
     /\ sc[1].timestamp > 0
     /\ SumSeq([k \in DOMAIN sc |-> sc[k].score]) % PerfKeep # 0

\* C22: monotone counter: a task created later has a strictly greater id
\* than every task created before it, evicted or not, so no two tasks ever
\* share an id: the live list is in creation order with increasing ids, and
\* every id a step adds is greater than every id given before the step.
C22_MonotoneCounter ==
  /\ [](/\ \A i, j \in DOMAIN tasks : i < j => tasks[i].id < tasks[j].id
        /\ \A i \in DOMAIN tasks : tasks[i].id <= taskCounter)
  /\ [][/\ taskCounter' >= taskCounter
        /\ \A j \in DOMAIN tasks' :
             tasks'[j].id \notin {tasks[i].id : i \in DOMAIN tasks}
             => tasks'[j].id > taskCounter]_vars

\* finished tasks were evicted from the live list, and a user's task and a
\* subtask created after that are in it (with one agent, a task numbered
\* above MAX_VISIBLE + 2 is created after MAX_VISIBLE + 1 tasks finished)
C22_Witness ==
  /\ archivedTaskCount > 0
  /\ \E i, j \in DOMAIN tasks :
       /\ tasks[i].parentTaskId = NoTask
       /\ tasks[j].parentTaskId # NoTask
       /\ tasks[i].id > MAX_VISIBLE + 2
       /\ tasks[j].id > MAX_VISIBLE + 2

\* the priorities in the order of the specification, most urgent first
PriorityRank(p) ==
  CASE p = "critical" -> 0 [] p = "high" -> 1 [] p = "medium" -> 2 [] OTHER -> 3

\* task t comes before task u: by priority, then by insertion
QueuesBefore(t, u) ==
  \/ PriorityRank(t.priority) < PriorityRank(u.priority)
  \/ PriorityRank(t.priority) = PriorityRank(u.priority) /\ t.id < u.id

\* C23: the pending queue returned by getPendingTasks is ordered critical,
\* high, medium, low and by insertion within a priority, and a dispatch tick
\* that leaves a task pending has dispatched no task that comes after it.
C23_PriorityOrder ==
  /\ [](LET q == getPendingTasks(tasks)
        IN \A i, j \in DOMAIN q : i < j => QueuesBefore(q[i], q[j]))
  /\ [][\A i, j \in DOMAIN tasks :
          (/\ tasks[i].status = "pending" /\ tasks[j].status = "pending"
           /\ tasks'[i].status = "pending" /\ tasks'[j].status = "active")
          => QueuesBefore(tasks[j], tasks[i])]_vars

\* the agents after the recharge timer ran once, and twice in a row
RechargedOnce == [i \in DOMAIN agents |-> Recharged(agents[i], now)]
RechargedTwice == [i \in DOMAIN agents |-> Recharged(RechargedOnce[i], now)]

\* whatever a dispatch tick leaves, a second one right after it leaves as it is
DispatchIdempotent ==
  \A V \in runDispatch(World, performanceLog, now) :
    runDispatch(V, performanceLog, now) = {V}

\* C24 as stated: the dispatch tick and the recharge tick are each
\* idempotent: the tick run twice in a row leaves the state it leaves when
\* run once.
C24_TicksIdempotent ==
  /\ DispatchIdempotent
  /\ RechargedTwice = RechargedOnce

\* C24, amended: the dispatch tick is idempotent; the recharge tick run twice
\* in a row leaves the state it leaves when run once but for the energy,
\* which the second run raises again, by the recharge amount up to maxEnergy,
\* for every agent that is not offline.
C24_IdempotentButEnergy ==
  /\ DispatchIdempotent
  /\ \A i \in DOMAIN agents :
       /\ [RechargedTwice[i] EXCEPT !.energy = RechargedOnce[i].energy] = RechargedOnce[i]
       /\ RechargedTwice[i].energy =
            IF agents[i].status = "offline" THEN agents[i].energy
            ELSE Min(agents[i].maxEnergy, RechargedOnce[i].energy + MinRecharge)

\* a task is pending while an agent is idle, so that the dispatch tick acts,
\* and an agent is two recharges below its maximum, so that the recharge tick
\* acts the first and the second time
C24_Witness ==
  /\ runDispatch(World, performanceLog, now) # {World}
  /\ \E i \in DOMAIN agents : agents[i].energy + 2 * MinRecharge <= agents[i].maxEnergy

\* no task is pending
NothingPending == \A i \in DOMAIN tasks : tasks[i].status # "pending"

\* no agent is callable: none is idle with a provider the server can call
NobodyCallable ==
  \A i \in DOMAIN agents : agents[i].status # "idle" \/ IsBridge(agents[i].provider)

\* C25: a dispatch tick with an empty pending queue changes nothing; one with
\* pending tasks and no callable agent leaves every pending task pending and
\* every agent, the activity log and the live executions as they are; the
\* tick never writes the performance log, so no failure or score is recorded.
\* Hence a task that no agent was ever picked for is still pending.
C25_IdleDispatchIsNoOp ==
  /\ (NothingPending \/ NobodyCallable) =>
       \A V \in runDispatch(World, performanceLog, now) :
         /\ V.tasks = tasks
         /\ V.agents = agents
         /\ V.runs = runs
         /\ V.activity = activity
         /\ V.taskCounter = taskCounter
         /\ V.history = taskHistory
  /\ \A i \in DOMAIN tasks : tasks[i].assignedAgentId = Null => tasks[i].status = "pending"

\* a task is pending while one agent is working and no agent is idle
C25_Witness ==
  /\ ~NothingPending
  /\ NobodyCallable
  /\ \E i \in DOMAIN agents : agents[i].status = "working"

\* C26: parser round trip: parsing the rendered text of a well-formed file,
\* exec or subtask block returns exactly that block, a file's content byte
\* for byte.
C26_ParserRoundTrip == parsed.result = parsed.block
\* client c was delivered a snapshot taken at state version v or later
Delivered(c, v) == \E i \in DOMAIN snapshots[c] : snapshots[c][i].version >= v

\* C27: trailing delivery: every state change that requests a broadcast is
\* eventually followed, for each connected subscriber, by a state:full
\* delivery whose snapshot was taken after that change; a request made while
\* a delivery is scheduled neither sends anything nor moves the timer, and
\* the timer's one delivery carries the state after all of these requests.
C27_TrailingDelivery ==
  /\ \A c \in Clients : \A v \in 1..CastEvents :
       (stateVersion = v /\ c \in Connected(snapshots)) ~> Delivered(c, v)
  /\ [][/\ (broadcastPending /\ stateVersion' # stateVersion)
            => /\ broadcastPending'
               /\ broadcastTimer' = broadcastTimer
               /\ snapshots' = snapshots
        /\ (broadcastPending /\ ~broadcastPending')
            => \A c \in Connected(snapshots) :
                 snapshots'[c] = Append(snapshots[c], Snapshot(now, "broadcast", stateVersion))]_vars

\* a subscriber got a broadcast and, 300 ms later, the one trailing broadcast
\* of two or more state changes requested in between
C27_Witness ==
  \E c \in Clients : \E i \in 1..(Len(Received(c)) - 1) :
    /\ Received(c)[i].via = "broadcast"
    /\ Received(c)[i + 1].via = "broadcast"
    /\ Received(c)[i + 1].at = Received(c)[i].at + BROADCAST_MIN_INTERVAL
    /\ Received(c)[i + 1].version >= Received(c)[i].version + 2
\* the files written and the commands run by approveTask
Approved == {e \in written \cup executed : e.via = "approve"}

\* C28: the side effects of a reviewed task are applied at most once: for any
\* number of approveTask commands for the same task, in any interleaving, none
\* of its files is written and none of its commands is run a second time.
C28_AppliedAtMostOnce == \A e \in Approved : e.n = 1
\* agent record i is working on a task that is active and assigned to it
WorksOnActive(i) ==
  \E j \in DOMAIN tasks :
    /\ tasks[j].id = agents[i].currentTaskId
    /\ tasks[j].status = "active"
    /\ tasks[j].assignedAgentId = agents[i].id

\* task j is assigned to an agent that is working on it
HeldByWorking(j) ==
  \E i \in DOMAIN agents :
    /\ agents[i].id = tasks[j].assignedAgentId
    /\ agents[i].status = "working"
    /\ agents[i].currentTaskId = tasks[j].id

\* C29: agent and task records agree: each working agent's currentTaskId
\* names a task that is active and assigned to that agent, and each active
\* task's assignedAgentId names an agent that is working with currentTaskId
\* equal to that task's id.
C29_RecordsAgree ==
  /\ \A i \in DOMAIN agents : agents[i].status = "working" => WorksOnActive(i)
  /\ \A j \in DOMAIN tasks : tasks[j].status = "active" => HeldByWorking(j)
\* task tid is active
IsActive(tid) == HasTask(tasks, tid) /\ TaskOf(tasks, tid).status = "active"

\* task tid has left active for completed, review or failed
HasSettled(tid) ==
  HasTask(tasks, tid) /\ TaskOf(tasks, tid).status \in {"completed", "review", "failed"}

\* C30: every task that becomes active eventually leaves active for
\* completed, review or failed, and its assigned agent eventually leaves
\* working, provided every backend call terminates.
C30_ActiveTerminates ==
  /\ \A tid \in 1..(XMaxTasks + XMaxSpawned) : IsActive(tid) ~> HasSettled(tid)
  /\ \A i \in DOMAIN XInitialAgents :
       (agents[i].status = "working") ~> (agents[i].status # "working")
\* the callable agents that score higher than agent i for a task of this title
ScoresAbove(i, title) ==
  {j \in getCallableAgents(agents) :
     PickScore(performanceLog, agents[j].id, classifyTask(title))
       > PickScore(performanceLog, agents[i].id, classifyTask(title))}

\* C31: agent selection: when a task is created with nothing else pending,
\* it is left without an agent exactly when no agent is callable; if its
\* preferredAgentId names a callable agent, that agent gets it; otherwise the
\* agent that gets it is callable and fewer than 3 callable agents score
\* higher.
C31_AgentSelection ==
  [][(taskCounter' = taskCounter + 1 /\ \A k \in DOMAIN tasks : tasks[k].status # "pending")
     => LET t == TaskOf(tasks', taskCounter')
            callable == getCallableAgents(agents)
            named == {i \in callable : agents[i].id = t.preferredAgentId}
        IN /\ (t.assignedAgentId = Null) <=> (callable = {})
           /\ t.assignedAgentId # Null
              => \E i \in callable : agents[i].id = t.assignedAgentId
           /\ \A i \in named : t.assignedAgentId = agents[i].id
           /\ named = {}
              => \A i \in callable :
                   t.assignedAgentId = agents[i].id
                   => Cardinality(ScoresAbove(i, t.title)) < 3]_vars

\* four agents were callable and the first of them, which had completed a
\* task, was the lowest-scoring: the next task went to the fourth
C31_Witness ==
  /\ \E k, d \in DOMAIN tasks :
       /\ tasks[k].status = "active"
       /\ tasks[k].assignedAgentId = "a4"
       /\ tasks[k].preferredAgentId = "auto"
       /\ tasks[d].assignedAgentId = "a1"
       /\ tasks[d].status = "completed"
       /\ tasks[d].completed < tasks[k].started
  /\ Len(tasks) = 2
  /\ {1, 2, 3} \subseteq getCallableAgents(agents)
  /\ {2, 3} \subseteq ScoresAbove(1, "plain")
  /\ PickScore(performanceLog, "a4", classifyTask("plain"))
       > PickScore(performanceLog, "a1", classifyTask("plain"))
\* C32: within one task the commands run one after another in the order
\* parsed; a command that fails is recorded as an unsuccessful outcome,
\* does not stop the commands after it and does not mark the task failed;
\* the outcome list has exactly one entry per command, in the same order.
C32_CommandOutcomes ==
  /\ [](\A i \in DOMAIN tasks :
          (tasks[i].result.has /\ tasks[i].result.execRan)
          => Len(tasks[i].result.execResults) = Len(tasks[i].result.rawOutput.execs))
  /\ [][\A tid \in DOMAIN runs :
          runs[tid].pc = "exec"
          => IF tid \in DOMAIN runs'
             THEN /\ runs'[tid].pc = "exec"
                  /\ runs'[tid].i \in {runs[tid].i, runs[tid].i + 1}
                  /\ Len(runs'[tid].results) = runs'[tid].i - 1
             ELSE /\ HasTask(tasks', tid) => TaskOf(tasks', tid).status # "failed"
                  /\ runs[tid].i = Len(runs[tid].out.execs)]_vars
\* every task created so far has ended failed and no pipeline is running
AllFailed ==
  /\ taskCounter > 0
  /\ Len(tasks) = taskCounter
  /\ runs = <<>>
  /\ \A k \in DOMAIN tasks : tasks[k].status = "failed"

\* C33: a task that ends failed, including when a file write fails after the
\* model call succeeded, leaves its agent's energy, xp, level, tasksCompleted
\* and totalTokensUsed as they were before the task: while every task has
\* ended failed, every agent has the counters it started with.
C33_FailedTaskLeavesCounters ==
  AllFailed
  => \A i \in DOMAIN agents :
       /\ agents[i].energy = StartEnergy
       /\ agents[i].xp = 0
       /\ agents[i].level = 1
       /\ agents[i].tasksCompleted = 0
       /\ agents[i].totalTokensUsed = 0
FinishedStatuses == {"completed", "cancelled", "failed"}

\* the ids of the tasks in a live list, and of its finished tasks
LiveIds(tk) == {tk[i].id : i \in DOMAIN tk}
FinishedIds(tk) == {tk[i].id : i \in {j \in DOMAIN tk : tk[j].status \in FinishedStatuses}}

\* task.completed || 0
CompletedKey(t) == IF t.completed = NoTime THEN 0 ELSE t.completed

\* C34: live-view eviction: in every reachable state at most 30 tasks in
\* status completed, cancelled or failed remain in the live task list; the
\* tasks removed from it were finished, none of the finished tasks that stay
\* is older than a removed one, the archived counter grows by their number,
\* and pending, active and review tasks are never removed.
C34_LiveViewEviction ==
  /\ [](Cardinality(FinishedIds(tasks)) <= MAX_VISIBLE)
  /\ [][LET gone == LiveIds(tasks) \ LiveIds(tasks')
        IN /\ archivedTaskCount' = archivedTaskCount + Cardinality(gone)
           /\ \A g \in gone :
                /\ TaskOf(tasks, g).status \notin {"pending", "review"}
                /\ \A k \in FinishedIds(tasks') :
                     CompletedKey(TaskOf(tasks, g)) <= CompletedKey(TaskOf(tasks', k))]_vars
\* the backend call of task tid returns in this step
CallReturns(tid) ==
  /\ tid \in DOMAIN runs
  /\ tid \notin DOMAIN runs' \/ runs'[tid] # runs[tid]
  /\ HasTask(tasks', tid)
  /\ TaskOf(tasks', tid).result.has
  /\ TaskOf(tasks', tid).result.success

\* the energy and the token total of agent record i after a call that
\* returned T tokens
Debited(i, T) ==
  /\ agents'[i].energy = Max(0, agents[i].energy - Min(5, CeilDiv(T, 1000)))
  /\ agents'[i].totalTokensUsed = agents[i].totalTokensUsed + T

\* C35: per-task accounting: when a backend call returns T tokens, the
\* agent's energy decreases by min(5, ceil(T/1000)) but not below 0 and
\* its totalTokensUsed grows by T (the extension's registry keeps neither
\* tasksCompleted nor xp up to date: these are the gamification engine's).
C35_PerTaskAccounting ==
  [][\A tid \in DOMAIN runs :
       CallReturns(tid)
       => Debited(runs[tid].agent, TaskOf(tasks', tid).result.tokensUsed)]_vars

\* C35 in the dev server, with tasksCompleted, xp and level
C35_DevServerAccounting ==
  [][\A tid \in DOMAIN runs :
       (CallReturns(tid) /\ runs[tid].pc = "call")
       => LET i == runs[tid].agent
              T == TaskOf(tasks', tid).result.tokensUsed
          IN /\ Debited(i, T)
             /\ agents'[i].tasksCompleted = agents[i].tasksCompleted + 1
             /\ agents'[i].xp = agents[i].xp + 20 + Min(30, T \div 100)
             /\ agents'[i].level = (agents'[i].xp \div 300) + 1]_vars
\* the scoring formula as specified, before clamping: files, FILE markers,
\* commands, token bucket, status
FormulaBase(in, nBlocks) ==
  LET ok == Cardinality({i \in DOMAIN in.execResults : in.execResults[i]}) IN
  (IF in.nFiles > 0 THEN 20 + Min(20, 5 * in.nFiles) ELSE 0)
  + (IF in.markers # {} THEN 15 ELSE 0)
  + (IF nBlocks > 0 /\ in.execRan THEN RoundDiv(15 * ok, nBlocks)
     ELSE IF nBlocks = 0 THEN 10 ELSE 0)
  + (IF 0 < in.tokens /\ in.tokens < 500 THEN 15
     ELSE IF 500 <= in.tokens /\ in.tokens < 2000 THEN 12
     ELSE IF 2000 <= in.tokens /\ in.tokens < 5000 THEN 8
     ELSE IF 5000 <= in.tokens /\ in.tokens < 10000 THEN 4 ELSE 0)
  + (IF in.status # "failed" THEN 15 ELSE 0)

\* C36: the score of a task equals the specified formula clamped to 0..100
\* for every combination of file count, FILE markers in the raw text,
\* command count and outcomes, token count and final status, and is always
\* within 0..100.
C36_ScoreFormula ==
  "score" \in DOMAIN parsed
  => /\ parsed.score = Min(100, Max(0, FormulaBase(parsed.input, parsed.nExecBlocks)))
     /\ parsed.score \in 0..100
\* the sum of the per-category averages of agent id
SumOfAverages(id) == SumSeq([i \in DOMAIN performanceLog[id] |-> performanceLog[id][i].avg])

\* C37: an agent's overall score is the arithmetic mean of its per-category
\* averages (rounded to the nearest integer), and is 50 when the agent has
\* no records.
C37_OverallScoreIsMean ==
  \A id \in DOMAIN performanceLog :
    IF performanceLog[id] = <<>>
    THEN getAgentOverallScore(performanceLog, id) = 50
    ELSE IsRounded(getAgentOverallScore(performanceLog, id), SumOfAverages(id),
                   Len(performanceLog[id]))
\* a log is a ring of the 100 most recent entries, in publication order
RingOf100(log) ==
  /\ Len(log) <= 100
  /\ \A i \in 1..(Len(log) - 1) : log[i + 1] = log[i] + 1
  /\ log # <<>> => log[1] = Max(1, log[Len(log)] - 99)

\* C38: the activity log is a bounded ring: after any sequence of events it
\* holds at most 100 entries, they are the 100 most recent in publication
\* order, and when full the oldest entry is the one dropped.
C38_ActivityRing == RingOf100(Logs.activity) /\ RingOf100(Logs.activityLog)

\* C38 for the dev server's log alone
C38_DevActivityRing == RingOf100(Logs.activity)
\* C39: agent ids are unique: after any sequence of addAgent commands,
\* including one that names an id already registered, the registry holds
\* at most one agent per id.
C39_AgentIdsUnique ==
  \A i, j \in 1..Len(agents) : agents[i].id = agents[j].id => i = j

\* C40: no task is lost from the counts: the number of tasks in the live
\* list plus the archived counter equals the task counter.
C40_NoTaskLost == Len(tasks) + archivedTaskCount = taskCounter

\* tasks have been archived and the live list is at its limit
C40_Witness == archivedTaskCount > 0 /\ Len(tasks) = MAX_VISIBLE
====
